---------------------------- MODULE Spec2Model ----------------------------
(***************************************************************************)
(* A model of the twitch-webhooks subscriber: TwitchWebhookManager         *)
(* (webhooks.ts), the in-memory persistence manager (persistence.ts) and   *)
(* BasicWebhookRenewalScheduler (config.ts).                               *)
(*                                                                         *)
(* Every asynchronous operation of the manager is a process in a slot of   *)
(* procs.  An action runs one synchronous stretch of code: from a call or  *)
(* the continuation of an await up to the next await.  A call of an async  *)
(* method of the in-memory persistence manager takes effect inside the     *)
(* stretch that makes the call (its body holds no await); the caller then  *)
(* resumes in a later microtask.  Continuations of persistence awaits are  *)
(* microtasks: while one is pending no macrotask (an inbound HTTP request, *)
(* a hub response, a timer) starts.  The OAuth callbacks are supplied by   *)
(* the application and may resume at any time.                             *)
(***************************************************************************)
EXTENDS Integers, Sequences, FiniteSets, TLC

(***************************************************************************)
(* Bounds of the model.                                                    *)
(***************************************************************************)
MaxProcs == 2       \* operations in flight at once
MaxOps == 3         \* operations started in one behaviour
MaxTicks == 2       \* clock advances in one behaviour
MaxTimers == 2      \* timer handles handed out in one behaviour
MaxNow == 1000000000  \* the clock stops short of this many milliseconds

(***************************************************************************)
(* Program constants.                                                      *)
(***************************************************************************)
DefaultLeaseSeconds == 864000
MsPerSecond == 1000
ResubPercent == 85

Slots == 1..MaxProcs

(***************************************************************************)
(* JavaScript values.  An object is a record whose domain is the set of    *)
(* the properties it holds: {} is the record with no field.  undefined is  *)
(* a value of its own.  A Date is <<t>> (t its getTime()) and the invalid  *)
(* Date (getTime() is NaN) is <<>>.  An absent string (null, undefined)    *)
(* is the string NULL.                                                     *)
(***************************************************************************)
EmptyObject == [f \in {} |-> TRUE]
Undefined == [undefined |-> TRUE]
NULL == "<null>"
InvalidDate == <<>>
Date(t) == <<t>>
IsValidDate(d) == Len(d) = 1
getTime(d) == d[1]

\* if (v) for a value that is an object or undefined
Truthy(v) == v # Undefined
\* if (s) for a value that is a string, null or undefined
TruthyStr(s) == s # NULL /\ s # ""
Has(o, f) == f \in DOMAIN o
Put(o, f, v) == [g \in DOMAIN o \cup {f} |-> IF g = f THEN v ELSE o[g]]

(***************************************************************************)
(* config.ts: the topic types and their endpoint and topic tables.         *)
(***************************************************************************)
WebhookType == {"UserFollows", "StreamChanged"}
WebhookTypeEndpoint(type) ==
    IF type = "UserFollows" THEN "follows" ELSE "stream_changed"
WebhookTypeTopic(type) ==
    IF type = "UserFollows" THEN "https://api.twitch.tv/helix/users/follows"
    ELSE "https://api.twitch.tv/helix/streams"

\* The requests the application makes: addUserFollowsSubscription(config, to_id)
\* and addStreamChangedSubscription(config, user_id).
UserIds == {"1"}
ParamString(type, user) ==
    IF type = "UserFollows" THEN "?first=1&to_id=" \o user ELSE "?user_id=" \o user
Searches == {ParamString(t, u) : t \in WebhookType, u \in UserIds}

\* crypto.createHmac('sha256', key).update(msg).digest('hex'), as an injective
\* function of the key and the message.
Hmac(key, msg) == "hmac(" \o key \o "," \o msg \o ")"

ManagerSecret == "managersecret"
OptionSecrets == {NULL, "hooksecret"}
\* options.leaseSeconds: <<>> when omitted, <<n>> when given
OptionLeases == {<<>>, <<0>>, <<10>>}
Hostname == "https://host"
BasePath == "webhooks"

(***************************************************************************)
(* persistence.ts                                                          *)
(***************************************************************************)
UndefinedKey == "<undefined>"
\* the key a Map uses for webhook.id
IdOf(webhook) == IF Has(webhook, "id") THEN webhook.id ELSE UndefinedKey

getIdFromTypeAndParams(type, searchString) ==
    WebhookTypeEndpoint(type) \o searchString

createWebhookPersistenceObject(type, paramString, optSecret, optLease) ==
    LET secret == IF TruthyStr(optSecret) THEN optSecret ELSE ManagerSecret
        href == WebhookTypeTopic(type) \o paramString
    IN  [id |-> WebhookTypeEndpoint(type) \o paramString,
         type |-> type,
         href |-> href,
         subscribed |-> FALSE,
         secret |-> Hmac(secret, href),
         leaseSeconds |-> IF Len(optLease) = 1 /\ optLease[1] # 0
                          THEN optLease[1] ELSE DefaultLeaseSeconds]

\* MemoryBasedTwitchWebhookPersistenceManager over the Map `webhooks`
\* (a function from keys to objects).
MapSet(map, key, val) == [k \in DOMAIN map \cup {key} |-> IF k = key THEN val ELSE map[k]]
MapDelete(map, key) == [k \in DOMAIN map \ {key} |-> map[k]]
MapGet(map, key) == IF key \in DOMAIN map THEN map[key] ELSE Undefined

\* Object.assign({}, source): a copy of the source's own properties; an
\* undefined source is skipped.
ObjectAssignEmpty(source) == IF source = Undefined THEN EmptyObject ELSE source

getWebhookById(map, id) == ObjectAssignEmpty(MapGet(map, id))
\* A save that leaves a record already stored under the id as it is.
saveWebhook_keep(map, webhook) ==
    IF IdOf(webhook) \in DOMAIN map THEN map ELSE MapSet(map, IdOf(webhook), webhook)
saveWebhook(map, webhook) == MapSet(map, IdOf(webhook), webhook)
\* A persist that stores nothing.
persistWebhook_dropped(map, webhook) == map
persistWebhook(map, webhook) == saveWebhook(map, webhook)
deleteWebhook(map, id) == MapDelete(map, id)

(***************************************************************************)
(* webhooks.ts helpers                                                     *)
(***************************************************************************)
getEndpointPath(basePath, type) ==
    (IF TruthyStr(basePath) THEN "/" \o basePath ELSE "") \o "/" \o WebhookTypeEndpoint(type)

\* new URL(href).search for the topic URLs of the model; new URL(undefined) throws.
URLParses(webhook) == Has(webhook, "href")
URLSearch(href) ==
    CHOOSE s \in Searches : \E t \in WebhookType : WebhookTypeTopic(t) \o s = href

getCallbackUrl(webhook) ==
    Hostname \o getEndpointPath(BasePath, webhook.type) \o URLSearch(webhook.href)

\* Parameters that ask for the default lease whatever the record holds.
HubParams_defaultLease(webhook, subscribe) ==
    [callback |-> getCallbackUrl(webhook),
     mode |-> IF subscribe THEN "subscribe" ELSE "unsubscribe",
     topic |-> webhook.href,
     lease_seconds |-> DefaultLeaseSeconds,
     secret |-> webhook.secret]

HubParams(webhook, subscribe) ==
    [callback |-> getCallbackUrl(webhook),
     mode |-> IF subscribe THEN "subscribe" ELSE "unsubscribe",
     topic |-> webhook.href,
     lease_seconds |-> webhook.leaseSeconds,
     secret |-> webhook.secret]

(***************************************************************************)
(* State.                                                                  *)
(***************************************************************************)
VARIABLES
    webhooks,             \* MemoryBasedTwitchWebhookPersistenceManager.webhooks
    webhookURLToTimeout,  \* BasicWebhookRenewalScheduler.webhookURLToTimeout
    timers,               \* the pending setTimeout and setImmediate callbacks
    nextHandle,           \* the next timer handle
    renewalScheduler,     \* whether config.renewalScheduler is set
    persistenceManager,   \* config.persistenceManager: the default or a supplied one
    schedulerLog,         \* history: the calls of the scheduler and of resubHandler
    now,                  \* Date.now()
    ticks,                \* clock advances so far
    procs,                \* the operations in flight and the finished ones
    opsStarted,           \* operations started so far
    deletedIds            \* history: the ids deleteWebhook was called with

vars == <<webhooks, webhookURLToTimeout, timers, nextHandle, renewalScheduler, persistenceManager, schedulerLog,
          now, ticks, procs, opsStarted, deletedIds>>

\* config.persistenceManager || new MemoryBasedTwitchWebhookPersistenceManager()
MemoryBased == "MemoryBasedTwitchWebhookPersistenceManager"
\* a manager the application passes in config.persistenceManager
Supplied == "TwitchWebhookPersistenceManager"
\* A supplied manager whose getWebhookById never finds a record.
Supplied_getWebhookById_none(map, id) == Undefined
\* getWebhookById of a supplied manager: the stored record, undefined when
\* there is none
Supplied_getWebhookById(map, id) == MapGet(map, id)
\* this.config.persistenceManager.getWebhookById(id)
config_getWebhookById(id) ==
    IF persistenceManager = MemoryBased
    THEN getWebhookById(webhooks, id)
    ELSE Supplied_getWebhookById(webhooks, id)

\* No call of the scheduler yet: what addToScheduler armed, the times
\* resubHandler ran for each handle, the callbacks pending for an id when
\* removeFromScheduler was called with it, and those pending at destroy();
\* whether the manager's destroy() has returned and the operations that were
\* in flight when it did.
NoCalls == [armed |-> EmptyObject, resubCalled |-> EmptyObject,
            removed |-> {}, destroyed |-> {},
            managerDestroyed |-> FALSE, inFlight |-> {}]

NoResponse == [sent |-> FALSE, status |-> 0, body |-> ""]
Response(status, body) == [sent |-> TRUE, status |-> status, body |-> body]

\* A slot that holds no operation.
Idle ==
    [kind |-> "none", op |-> 0, pc |-> "done", ret |-> "none", result |-> "",
     webhook |-> Undefined, id |-> "", subscribe |-> FALSE,
     posts |-> <<>>, resps |-> <<>>, refreshes |-> 0, hub |-> "none",
     evts |-> <<>>, heard |-> <<>>, response |-> NoResponse, in |-> EmptyObject,
     seenDone |-> {}, handler |-> FALSE]

\* The awaits whose continuation is a microtask (persistence calls and the
\* return of an inner async function).
MicroPcs == {"sub_lookup", "sub_persisted", "unsub_lookup", "unsub_deleted",
             "resub_lookup", "cs_done", "get_lookup", "get_deleted", "get_saved",
             "mw_lookup", "post_lookup", "init_lookup"}
MicroPending == \E s \in Slots : procs[s].pc \in MicroPcs

Free(s) == procs[s].pc = "done"
\* A new operation takes the first slot never used, and when every slot has
\* been used the slot of any finished operation.
Unused(s) == procs[s].kind = "none"
CanStart(s) ==
    /\ Free(s)
    /\ opsStarted < MaxOps
    /\ IF Unused(s) THEN \A u \in Slots : u < s => ~Unused(u)
       ELSE \A u \in Slots : ~Unused(u)
\* the operations whose promise had settled when a new one starts
Settled == {procs[t].op : t \in {u \in Slots : procs[u].ret \in {"resolved", "rejected"}}}
New(kind) ==
    [Idle EXCEPT !.kind = kind, !.op = opsStarted + 1, !.seenDone = Settled]

Init ==
    /\ webhooks = EmptyObject
    /\ webhookURLToTimeout = EmptyObject
    /\ timers = {}
    /\ nextHandle = 1
    /\ renewalScheduler \in BOOLEAN
    /\ persistenceManager = MemoryBased
    /\ schedulerLog = NoCalls
    /\ now = 0
    /\ ticks = 0
    /\ procs = [s \in Slots |-> Idle]
    /\ opsStarted = 0
    /\ deletedIds = {}

\* The manager constructed with config.persistenceManager set.
InitSupplied ==
    /\ webhooks = EmptyObject
    /\ webhookURLToTimeout = EmptyObject
    /\ timers = {}
    /\ nextHandle = 1
    /\ renewalScheduler \in BOOLEAN
    /\ persistenceManager = Supplied
    /\ schedulerLog = NoCalls
    /\ now = 0
    /\ ticks = 0
    /\ procs = [s \in Slots |-> Idle]
    /\ opsStarted = 0
    /\ deletedIds = {}

\* The application stores a record in the persistence manager it hands to the
\* manager, before it uses the manager.
App_persistWebhook(type, user, optSecret, optLease) ==
    /\ opsStarted = 0
    /\ webhooks' = persistWebhook(webhooks,
            createWebhookPersistenceObject(type, ParamString(type, user), optSecret, optLease))
    /\ UNCHANGED <<webhookURLToTimeout, timers, nextHandle, renewalScheduler, persistenceManager, schedulerLog,
                   now, ticks, procs, opsStarted, deletedIds>>

(***************************************************************************)
(* scheduling.ts: BasicWebhookRenewalScheduler.                            *)
(***************************************************************************)
\* The whole of x milliseconds.
ResubFraction_whole(x) == x
\* 0.85 * x milliseconds, rounded up to the clock's resolution
ResubFraction(x) ==
    (x \div 100) * ResubPercent + (((x % 100) * ResubPercent + 99) \div 100)
\* setTimeout(handler, after): a delay below 1 is 1 (the leases of the model
\* stay below the largest delay a timer takes)
TimeoutDelay(after) == IF after >= 1 THEN after ELSE 1

\* The dates addToScheduler reads are defined and valid.
DatesDefined(webhook) ==
    Has(webhook, "subscriptionStart") /\ Has(webhook, "subscriptionEnd")
DatesValid(webhook) ==
    IsValidDate(webhook.subscriptionStart) /\ IsValidDate(webhook.subscriptionEnd)
\* end - start - (Date.now() - start), the time left of the lease
TimeLeft(webhook, clock) ==
    (getTime(webhook.subscriptionEnd) - getTime(webhook.subscriptionStart))
        - (clock - getTime(webhook.subscriptionStart))

\* An addToScheduler that arms a timer whatever the time left.
addToScheduler_timers_timeout(webhook, clock) ==
    timers \cup {[handle |-> nextHandle, webhook |-> webhook, immediate |-> FALSE,
                  due |-> clock + TimeoutDelay(ResubFraction(TimeLeft(webhook, clock)))]}
\* addToScheduler(webhook): the timers and the handle map afterwards
addToScheduler_timers(webhook, clock) ==
    IF DatesValid(webhook) /\ TimeLeft(webhook, clock) <= 0
    THEN timers \cup {[handle |-> nextHandle, webhook |-> webhook,
                       immediate |-> TRUE, due |-> clock]}
    ELSE timers \cup {[handle |-> nextHandle, webhook |-> webhook,
                       immediate |-> FALSE,
                       due |-> clock + TimeoutDelay(
                           IF DatesValid(webhook)
                           THEN ResubFraction(TimeLeft(webhook, clock)) ELSE 0)]}
addToScheduler_map(webhook, clock) ==
    IF DatesValid(webhook) /\ TimeLeft(webhook, clock) <= 0
    THEN webhookURLToTimeout
    ELSE MapSet(webhookURLToTimeout, IdOf(webhook), nextHandle)

\* addToScheduler(webhook) as the history keeps it: the callback armed under
\* the new handle and the time of the call
addToScheduler_log(webhook, clock) ==
    [schedulerLog EXCEPT !.armed =
        MapSet(@, nextHandle,
               [timer |-> CHOOSE t \in addToScheduler_timers(webhook, clock) :
                              t.handle = nextHandle,
                at |-> clock])]

\* The callbacks of a webhook id that have not run and were not cleared.
PendingFor(id) == {t \in timers : IdOf(t.webhook) = id}

\* removeFromScheduler(id) as the history keeps it
removeFromScheduler_log(id) ==
    [schedulerLog EXCEPT !.removed =
        @ \cup {[handle |-> t.handle, at |-> now] : t \in PendingFor(id)}]

\* removeFromScheduler(id)
removeFromScheduler_timers(id) ==
    IF id \in DOMAIN webhookURLToTimeout
    THEN {t \in timers : t.handle # webhookURLToTimeout[id]}
    ELSE timers
removeFromScheduler_map(id) == MapDelete(webhookURLToTimeout, id)

\* destroy(): clearTimeout of every handle in the map, then the map is cleared
destroy_timers == {t \in timers :
                     \A id \in DOMAIN webhookURLToTimeout : webhookURLToTimeout[id] # t.handle}
\* destroy() as the history keeps it: the callbacks pending when it was called
destroy_log == [schedulerLog EXCEPT !.destroyed = @ \cup {t.handle : t \in timers}]

\* A pending callback may run: a setImmediate at once, a setTimeout when due.
TimerDue(t) == t.immediate \/ now >= t.due

(***************************************************************************)
(* webhooks.ts: changeSub and doHubRequest.                                *)
(***************************************************************************)
HubStatuses == {202, 401, 429}
\* What got.post gives back: <<status>> for a response, <<>> when it rejects
\* (no response, or the 10 s timeout).
HubOutcomes == {<<>>} \cup {<<status>> : status \in HubStatuses}
Is2xx(status) == status \div 100 = 2
\* A retry on every response that is not 2xx.
Retries_always(status) == TRUE
\* resp.statusCode === 401
Retries(status) == status = 401
Tokens == {"token0"}
RefreshedTokens == {"token1"}
Rejects == "<rejects>"

\* A POST to the hub: the bearer token and the JSON body.
Post(token, hubParams) == [token |-> token, body |-> hubParams]
\* A retry that sends the first request again as it was.
RetryPost_stale(first, refreshed) == first
\* The retried POST: the refreshed token and the same paramJson.
RetryPost(first, refreshed) == Post(refreshed, first.body)

\* changeSub(webhook, subscribe) up to its first await: getCallbackUrl throws
\* for a webhook with no href, else getOAuthToken is called.
changeSub_call(p, webhook, subscribe) ==
    IF URLParses(webhook)
    THEN [p EXCEPT !.pc = "cs_token", !.webhook = webhook, !.subscribe = subscribe]
    ELSE [p EXCEPT !.pc = "cs_done", !.webhook = webhook, !.subscribe = subscribe,
                   !.hub = "threw"]

\* changeSub after getOAuthToken: doHubRequest sends the first POST.
changeSub(s, token) ==
    /\ procs[s].pc = "cs_token"
    /\ procs' = [procs EXCEPT ![s] =
          IF token = Rejects
          THEN [@ EXCEPT !.pc = "cs_done", !.hub = "threw"]
          ELSE [@ EXCEPT !.pc = "hub1",
                         !.posts = <<Post(token, HubParams(procs[s].webhook,
                                                           procs[s].subscribe))>>]]
    /\ UNCHANGED <<webhooks, webhookURLToTimeout, timers, nextHandle,
                   renewalScheduler, persistenceManager, schedulerLog, now, ticks, opsStarted, deletedIds>>

\* doHubRequest after the first got.post: refreshOAuthToken is called while
\* the options of the second POST are built.
doHubRequest_first(s, outcome) ==
    /\ procs[s].pc = "hub1"
    /\ ~MicroPending
    /\ procs' = [procs EXCEPT ![s] =
          IF outcome = <<>>
          THEN [@ EXCEPT !.pc = "cs_done", !.hub = "failed"]
          ELSE IF Is2xx(outcome[1])
          THEN [@ EXCEPT !.pc = "cs_done", !.hub = "ok", !.resps = outcome]
          ELSE IF Retries(outcome[1])
          THEN [@ EXCEPT !.pc = "hub_refresh", !.resps = outcome,
                         !.refreshes = @ + 1]
          ELSE [@ EXCEPT !.pc = "cs_done", !.hub = "failed", !.resps = outcome]]
    /\ UNCHANGED <<webhooks, webhookURLToTimeout, timers, nextHandle,
                   renewalScheduler, persistenceManager, schedulerLog, now, ticks, opsStarted, deletedIds>>

\* doHubRequest after refreshOAuthToken: the second POST.
doHubRequest_retry(s, token) ==
    /\ procs[s].pc = "hub_refresh"
    /\ procs' = [procs EXCEPT ![s] =
          IF token = Rejects
          THEN [@ EXCEPT !.pc = "cs_done", !.hub = "failed"]
          ELSE [@ EXCEPT !.pc = "hub2",
                         !.posts = Append(@, RetryPost(procs[s].posts[1], token))]]
    /\ UNCHANGED <<webhooks, webhookURLToTimeout, timers, nextHandle,
                   renewalScheduler, persistenceManager, schedulerLog, now, ticks, opsStarted, deletedIds>>

\* doHubRequest after the second got.post.
doHubRequest_second(s, outcome) ==
    /\ procs[s].pc = "hub2"
    /\ ~MicroPending
    /\ procs' = [procs EXCEPT ![s] =
          IF outcome = <<>>
          THEN [@ EXCEPT !.pc = "cs_done", !.hub = "failed"]
          ELSE IF Is2xx(outcome[1])
          THEN [@ EXCEPT !.pc = "cs_done", !.hub = "ok", !.resps = @ \o outcome]
          ELSE [@ EXCEPT !.pc = "cs_done", !.hub = "failed", !.resps = @ \o outcome]]
    /\ UNCHANGED <<webhooks, webhookURLToTimeout, timers, nextHandle,
                   renewalScheduler, persistenceManager, schedulerLog, now, ticks, opsStarted, deletedIds>>

HubOk(p) == p.hub = "ok"

(***************************************************************************)
(* webhooks.ts: the operations the application calls.                      *)
(***************************************************************************)
\* addUserFollowsSubscription / addStreamChangedSubscription: up to the await
\* of getWebhookById in subscribeOrGetSubscription.
addSubscription(s, type, user, optSecret, optLease) ==
    /\ CanStart(s)
    /\ LET webhook == createWebhookPersistenceObject(type, ParamString(type, user),
                                                     optSecret, optLease)
       IN procs' = [procs EXCEPT ![s] =
            [New("sub") EXCEPT !.pc = "sub_lookup", !.ret = "pending",
                               !.id = webhook.id,
                               !.in = [webhook |-> webhook,
                                       options |-> [secret |-> optSecret,
                                                    leaseSeconds |-> optLease]],
                               !.webhook = config_getWebhookById(webhook.id)]]
    /\ opsStarted' = opsStarted + 1
    /\ UNCHANGED <<webhooks, webhookURLToTimeout, timers, nextHandle,
                   renewalScheduler, persistenceManager, schedulerLog, now, ticks, deletedIds>>

\* subscribeOrGetSubscription after each of its awaits.
subscribeOrGetSubscription(s) ==
    /\ procs[s].kind = "sub"
    /\ procs[s].pc \in {"sub_lookup", "sub_persisted", "cs_done"}
    /\ LET p == procs[s]
           oldWebhook == p.webhook
           webhook == p.in.webhook
       IN CASE p.pc = "sub_lookup" ->
                 IF Truthy(oldWebhook)
                 THEN /\ procs' = [procs EXCEPT ![s] =
                            [p EXCEPT !.pc = "done", !.ret = "resolved",
                                      !.result = IdOf(oldWebhook)]]
                      /\ UNCHANGED webhooks
                 ELSE /\ webhooks' = persistWebhook(webhooks, webhook)
                      /\ procs' = [procs EXCEPT ![s] = [p EXCEPT !.pc = "sub_persisted"]]
            [] p.pc = "sub_persisted" ->
                 /\ procs' = [procs EXCEPT ![s] = changeSub_call(p, webhook, TRUE)]
                 /\ UNCHANGED webhooks
            [] p.pc = "cs_done" ->
                 /\ procs' = [procs EXCEPT ![s] =
                       IF HubOk(p)
                       THEN [p EXCEPT !.pc = "done", !.ret = "resolved",
                                      !.result = IdOf(webhook)]
                       ELSE [p EXCEPT !.pc = "done", !.ret = "rejected"]]
                 /\ UNCHANGED webhooks
    /\ UNCHANGED <<webhookURLToTimeout, timers, nextHandle, renewalScheduler, persistenceManager, schedulerLog,
                   now, ticks, opsStarted, deletedIds>>

\* Error(`Webhook with id ${webhookId} could not be found!`)
CouldNotBeFound == "could not be found!"

\* unsubscribe(webhookId) up to the await of getWebhookById.
unsubscribe_call(s, id) ==
    /\ CanStart(s)
    /\ procs' = [procs EXCEPT ![s] =
          [New("unsub") EXCEPT !.pc = "unsub_lookup", !.ret = "pending", !.id = id,
                               !.webhook = config_getWebhookById(id)]]
    /\ opsStarted' = opsStarted + 1
    /\ UNCHANGED <<webhooks, webhookURLToTimeout, timers, nextHandle,
                   renewalScheduler, persistenceManager, schedulerLog, now, ticks, deletedIds>>

\* unsubscribe after getWebhookById: unsubscribePersistenceObject is called and
\* not awaited, so unsubscribe returns while it runs on.
unsubscribe(s) ==
    /\ procs[s].pc = "unsub_lookup"
    /\ LET p == procs[s]
       IN procs' = [procs EXCEPT ![s] =
            IF Truthy(p.webhook)
            THEN [changeSub_call(p, p.webhook, FALSE) EXCEPT !.ret = "resolved"]
            ELSE [p EXCEPT !.pc = "done", !.ret = "rejected", !.result = CouldNotBeFound]]
    /\ UNCHANGED <<webhooks, webhookURLToTimeout, timers, nextHandle,
                   renewalScheduler, persistenceManager, schedulerLog, now, ticks, opsStarted, deletedIds>>

\* unsubscribePersistenceObject after changeSub and after deleteWebhook.
unsubscribePersistenceObject(s) ==
    /\ procs[s].kind = "unsub"
    /\ procs[s].pc \in {"cs_done", "unsub_deleted"}
    /\ LET p == procs[s]
           id == IdOf(p.webhook)
       IN IF p.pc = "cs_done"
          THEN IF HubOk(p)
               THEN /\ webhooks' = deleteWebhook(webhooks, id)
                    /\ deletedIds' = deletedIds \cup {id}
                    /\ procs' = [procs EXCEPT ![s] = [p EXCEPT !.pc = "unsub_deleted"]]
                    /\ UNCHANGED <<webhookURLToTimeout, timers, schedulerLog>>
               ELSE /\ procs' = [procs EXCEPT ![s] = [p EXCEPT !.pc = "done"]]
                    /\ UNCHANGED <<webhooks, deletedIds, webhookURLToTimeout, timers,
                                   schedulerLog>>
          ELSE /\ IF renewalScheduler
                  THEN /\ timers' = removeFromScheduler_timers(id)
                       /\ webhookURLToTimeout' = removeFromScheduler_map(id)
                       /\ schedulerLog' = removeFromScheduler_log(id)
                  ELSE UNCHANGED <<webhookURLToTimeout, timers, schedulerLog>>
               /\ procs' = [procs EXCEPT ![s] = [p EXCEPT !.pc = "done", !.result = "unsubscribed"]]
               /\ UNCHANGED <<webhooks, deletedIds>>
    /\ UNCHANGED <<nextHandle, renewalScheduler, persistenceManager, now, ticks, opsStarted>>

\* resubscribe(webhookId) up to the await of getWebhookById.
resubscribe_call(s, id) ==
    /\ CanStart(s)
    /\ procs' = [procs EXCEPT ![s] =
          [New("resub") EXCEPT !.pc = "resub_lookup", !.ret = "pending", !.id = id,
                               !.webhook = config_getWebhookById(id)]]
    /\ opsStarted' = opsStarted + 1
    /\ UNCHANGED <<webhooks, webhookURLToTimeout, timers, nextHandle,
                   renewalScheduler, persistenceManager, schedulerLog, now, ticks, deletedIds>>

\* resubscribe after getWebhookById and after changeSub.
resubscribe(s) ==
    /\ procs[s].kind = "resub"
    /\ procs[s].pc \in {"resub_lookup", "cs_done"}
    /\ LET p == procs[s]
       IN procs' = [procs EXCEPT ![s] =
            IF p.pc = "resub_lookup"
            THEN IF Truthy(p.webhook)
                 THEN changeSub_call(p, p.webhook, TRUE)
                 ELSE [p EXCEPT !.pc = "done", !.ret = "rejected", !.result = CouldNotBeFound]
            ELSE [p EXCEPT !.pc = "done",
                           !.ret = IF HubOk(p) THEN "resolved" ELSE "rejected"]]
    /\ UNCHANGED <<webhooks, webhookURLToTimeout, timers, nextHandle,
                   renewalScheduler, persistenceManager, schedulerLog, now, ticks, opsStarted, deletedIds>>

(***************************************************************************)
(* webhooks.ts: the endpoints the hub calls (addWebhookEndpoints) and the  *)
(* verification middleware.                                                *)
(***************************************************************************)
NoReasonGiven == "No reason given"

\* parseInt(str): <<n>>, or <<>> for NaN
parseInt(str) ==
    IF str = "0" THEN <<0>> ELSE IF str = "10" THEN <<10>> ELSE <<>>

Event(name, id, reason) == [name |-> name, id |-> id, reason |-> reason]

\* Timer handles still to hand out, one kept for every verification in flight.
HandlesLeft ==
    MaxTimers - (nextHandle - 1)
        - Cardinality({s \in Slots : procs[s].pc \in {"get_lookup", "get_saved"}})

\* !hub.mode || hub.mode === "denied"
Denied(r) == ~TruthyStr(r.mode) \/ r.mode = "denied"
\* The reason passed on as the hub gave it.
DeniedReason_raw(r) == r.reason
\* hub.reason ? hub.reason : 'No reason given'
DeniedReason(r) == IF TruthyStr(r.reason) THEN r.reason ELSE NoReasonGiven

\* app.get(endpoint_path, ...) up to the await of getWebhookById.
verification_request(s, r) ==
    /\ CanStart(s)
    /\ ~MicroPending
    /\ HandlesLeft > 0
    /\ procs' = [procs EXCEPT ![s] =
          IF ~TruthyStr(r.topic)
          THEN [New("get") EXCEPT !.in = r, !.result = "hub.topic not found in search params."]
          ELSE LET id == getIdFromTypeAndParams(r.type, URLSearch(r.topic))
               IN [New("get") EXCEPT !.in = r, !.pc = "get_lookup", !.id = id,
                                     !.webhook = config_getWebhookById(id)]]
    /\ opsStarted' = opsStarted + 1
    /\ UNCHANGED <<webhooks, webhookURLToTimeout, timers, nextHandle,
                   renewalScheduler, persistenceManager, schedulerLog, now, ticks, deletedIds>>

\* A granted branch that sets the dates and forgets webhook.subscribed = true.
verified_pending(webhook, r, clock) ==
    Put(Put(webhook, "subscriptionStart", Date(clock)), "subscriptionEnd", Date(clock + 1))
\* The record the granted branch saves.
verified(webhook, r, clock) ==
    LET start == Date(clock)
        end == IF TruthyStr(r.lease)
               THEN IF parseInt(r.lease) = <<>> THEN InvalidDate
                    ELSE Date(getTime(start) + parseInt(r.lease)[1] * MsPerSecond)
               ELSE IF Has(webhook, "leaseSeconds")
                    THEN Date(clock + webhook.leaseSeconds * MsPerSecond)
                    ELSE InvalidDate
    IN Put(Put(Put(webhook, "subscriptionStart", start), "subscriptionEnd", end),
           "subscribed", TRUE)

\* The GET handler after each of its awaits.
verification(s) ==
    /\ procs[s].kind = "get"
    /\ procs[s].pc \in {"get_lookup", "get_deleted", "get_saved"}
    /\ LET p == procs[s]
           r == p.in
           webhook == p.webhook
       IN CASE p.pc = "get_lookup" ->
                 IF Truthy(webhook)
                 THEN IF Denied(r)
                      THEN /\ webhooks' = deleteWebhook(webhooks, p.id)
                           /\ deletedIds' = deletedIds \cup {p.id}
                           /\ procs' = [procs EXCEPT ![s] =
                                 [p EXCEPT !.pc = "get_deleted",
                                           !.response = Response(200, "")]]
                           /\ UNCHANGED <<timers, webhookURLToTimeout, nextHandle,
                                          schedulerLog>>
                      ELSE /\ webhooks' = saveWebhook(webhooks, verified(webhook, r, now))
                           /\ procs' = [procs EXCEPT ![s] =
                                 [p EXCEPT !.pc = "get_saved",
                                           !.webhook = verified(webhook, r, now),
                                           !.response = Response(200, r.challenge)]]
                           /\ UNCHANGED <<deletedIds, timers, webhookURLToTimeout, nextHandle,
                                          schedulerLog>>
                 ELSE /\ procs' = [procs EXCEPT ![s] =
                            [p EXCEPT !.pc = "done", !.response = Response(404, "")]]
                      /\ UNCHANGED <<webhooks, deletedIds, timers, webhookURLToTimeout,
                                     nextHandle, schedulerLog>>
            [] p.pc = "get_deleted" ->
                 /\ procs' = [procs EXCEPT ![s] =
                       [p EXCEPT !.pc = "done",
                                 !.evts = Append(@, Event("error", IdOf(webhook),
                                                          DeniedReason(r)))]]
                 /\ UNCHANGED <<webhooks, deletedIds, timers, webhookURLToTimeout,
                                nextHandle, schedulerLog>>
            [] p.pc = "get_saved" ->
                 /\ procs' = [procs EXCEPT ![s] =
                       [p EXCEPT !.pc = "done",
                                 !.evts = Append(@, Event("subscribed", p.id, NULL))]]
                 /\ IF renewalScheduler
                    THEN /\ timers' = addToScheduler_timers(webhook, now)
                         /\ webhookURLToTimeout' = addToScheduler_map(webhook, now)
                         /\ schedulerLog' = addToScheduler_log(webhook, now)
                         /\ nextHandle' = nextHandle + 1
                    ELSE UNCHANGED <<timers, webhookURLToTimeout, nextHandle, schedulerLog>>
                 /\ UNCHANGED <<webhooks, deletedIds>>
    /\ UNCHANGED <<renewalScheduler, persistenceManager, now, ticks, opsStarted>>

\* res.status(status); res.end(body)
end(p, status, body) == [p EXCEPT !.response = Response(status, body)]
\* this.emit(...): the listeners run inside the call and find the response as
\* it is then.
emit(p, event) == [p EXCEPT !.evts = Append(@, event), !.heard = Append(@, p.response)]
\* A handler that emits 'message' first and answers afterwards.
post_message_emitFirst(p) == end(emit(p, Event("message", p.id, NULL)), 200, "")
\* The POST handler for a record found: the answer, then the 'message' event
\* with the id computed from the request.
post_message(p) == emit(end(p, 200, ""), Event("message", p.id, NULL))

\* The body of a POST parses as JSON or does not.
IsJson(body) == body = "notification"

\* verificationMiddleware for a POST, once the body has been read, up to the
\* await of getWebhookById.
notification_request(s, r) ==
    /\ CanStart(s)
    /\ ~MicroPending
    /\ procs' = [procs EXCEPT ![s] =
          IF r.json /\ ~IsJson(r.body)
          THEN [New("post") EXCEPT !.in = r, !.result = "JSON.parse threw"]
          ELSE IF TruthyStr(r.signature)
          THEN LET id == WebhookTypeEndpoint(r.type) \o r.search
               IN [New("post") EXCEPT !.in = r, !.pc = "mw_lookup", !.id = id,
                                      !.webhook = config_getWebhookById(id)]
          ELSE [New("post") EXCEPT !.in = r, !.response = Response(400, "")]]
    /\ opsStarted' = opsStarted + 1
    /\ UNCHANGED <<webhooks, webhookURLToTimeout, timers, nextHandle,
                   renewalScheduler, persistenceManager, schedulerLog, now, ticks, deletedIds>>

\* verificationMiddleware after getWebhookById, and the POST handler after its
\* own getWebhookById.
notification(s) ==
    /\ procs[s].kind = "post"
    /\ procs[s].pc \in {"mw_lookup", "post_lookup"}
    /\ LET p == procs[s]
           r == p.in
           webhook == p.webhook
       IN procs' = [procs EXCEPT ![s] =
            IF p.pc = "mw_lookup"
            THEN IF Truthy(webhook)
                 THEN IF ~Has(webhook, "secret")
                      THEN [p EXCEPT !.pc = "done", !.result = "createHmac threw"]
                      ELSE IF Hmac(webhook.secret, r.body) = r.signature
                      THEN LET id == getIdFromTypeAndParams(r.type, r.search)
                           IN [p EXCEPT !.pc = "post_lookup", !.handler = TRUE, !.id = id,
                                        !.webhook = config_getWebhookById(id)]
                      ELSE [p EXCEPT !.pc = "done", !.response = Response(400, "")]
                 ELSE [p EXCEPT !.pc = "done", !.response = Response(404, "")]
            ELSE IF Truthy(webhook)
                 THEN IF r.json /\ IsJson(r.body)
                      THEN [post_message(p) EXCEPT !.pc = "done"]
                      ELSE [p EXCEPT !.pc = "done", !.response = Response(200, ""),
                                     !.result = "req.body.data threw"]
                 ELSE [p EXCEPT !.pc = "done"]]
    /\ UNCHANGED <<webhooks, webhookURLToTimeout, timers, nextHandle,
                   renewalScheduler, persistenceManager, schedulerLog, now, ticks, opsStarted, deletedIds>>

(***************************************************************************)
(* Timers.                                                                 *)
(***************************************************************************)
\* A callback that stays pending after it has run, as one of setInterval.
Fired_repeating(pending, t) == pending
\* The pending callbacks once callback t has run: setTimeout and setImmediate
\* run a callback once.
Fired(pending, t) == pending \ {t}

\* resubHandler as the history keeps it: the time handle t.handle ran
resubHandler_log(t) ==
    [schedulerLog EXCEPT !.resubCalled =
        MapSet(@, t.handle, Append(IF t.handle \in DOMAIN @ THEN @[t.handle] ELSE <<>>, now))]

\* resubHandler: resubscribePersistenceObject(webhook) is called (it runs up to
\* the await in changeSub), then the handle is dropped from the map.
resubHandler(s, t) ==
    /\ t \in timers
    /\ TimerDue(t)
    /\ CanStart(s)
    /\ ~MicroPending
    /\ procs' = [procs EXCEPT ![s] =
          changeSub_call([New("renew") EXCEPT !.id = IdOf(t.webhook)], t.webhook, TRUE)]
    /\ webhookURLToTimeout' = MapDelete(webhookURLToTimeout, IdOf(t.webhook))
    /\ timers' = Fired(timers, t)
    /\ schedulerLog' = resubHandler_log(t)
    /\ opsStarted' = opsStarted + 1
    /\ UNCHANGED <<webhooks, nextHandle, renewalScheduler, persistenceManager, now, ticks,
                   deletedIds>>

\* resubscribePersistenceObject after changeSub; resubHandler's catch emits
\* an error event when it failed.
resubscribePersistenceObject(s) ==
    /\ procs[s].kind = "renew"
    /\ procs[s].pc = "cs_done"
    /\ procs' = [procs EXCEPT ![s] =
          IF HubOk(@)
          THEN [@ EXCEPT !.pc = "done"]
          ELSE [@ EXCEPT !.pc = "done", !.evts = Append(@, Event("error", procs[s].id, NULL))]]
    /\ UNCHANGED <<webhooks, webhookURLToTimeout, timers, nextHandle,
                   renewalScheduler, persistenceManager, schedulerLog, now, ticks, opsStarted, deletedIds>>

\* renewalScheduler.addToScheduler(webhook) called on the scheduler itself, as
\* init() does for every stored record.
addToScheduler(webhook) ==
    /\ renewalScheduler
    /\ ~MicroPending
    /\ HandlesLeft > 0
    /\ timers' = addToScheduler_timers(webhook, now)
    /\ webhookURLToTimeout' = addToScheduler_map(webhook, now)
    /\ schedulerLog' = addToScheduler_log(webhook, now)
    /\ nextHandle' = nextHandle + 1
    /\ UNCHANGED <<webhooks, renewalScheduler, persistenceManager, now, ticks, procs,
                   opsStarted, deletedIds>>

\* renewalScheduler.removeFromScheduler(id) called on the scheduler itself.
removeFromScheduler(id) ==
    /\ renewalScheduler
    /\ ~MicroPending
    /\ timers' = removeFromScheduler_timers(id)
    /\ webhookURLToTimeout' = removeFromScheduler_map(id)
    /\ schedulerLog' = removeFromScheduler_log(id)
    /\ UNCHANGED <<webhooks, nextHandle, renewalScheduler, persistenceManager, now, ticks,
                   procs, opsStarted, deletedIds>>

\* The operations that have not run to their end.
InFlight == {procs[s].op : s \in {u \in Slots : ~Free(u)}}

\* TwitchWebhookManager.destroy(): the scheduler's destroy(), then
\* config.renewalScheduler = undefined, then the persistence manager's
\* destroy() (the in-memory one clears its map).
destroy ==
    /\ renewalScheduler
    /\ ~MicroPending
    /\ timers' = destroy_timers
    /\ webhookURLToTimeout' = EmptyObject
    /\ schedulerLog' = [destroy_log EXCEPT !.managerDestroyed = TRUE,
                                           !.inFlight = InFlight]
    /\ renewalScheduler' = FALSE
    /\ webhooks' = IF persistenceManager = MemoryBased THEN EmptyObject ELSE webhooks
    /\ UNCHANGED <<nextHandle, persistenceManager, now, ticks, procs, opsStarted,
                   deletedIds>>

\* Time passes: by a millisecond, or up to the time a timer is due.
TickTargets == {now + 1} \cup {t.due : t \in {u \in timers : u.due > now}}
Tick ==
    /\ ticks < MaxTicks
    /\ ticks' = ticks + 1
    /\ \E t \in TickTargets : t <= MaxNow /\ now' = t
    /\ UNCHANGED <<webhooks, webhookURLToTimeout, timers, nextHandle,
                   renewalScheduler, persistenceManager, schedulerLog, procs, opsStarted, deletedIds>>

(***************************************************************************)
(* The requests of the environment.                                        *)
(***************************************************************************)
TopicOf(type) == {WebhookTypeTopic(type) \o ParamString(type, u) : u \in UserIds}
IdsOf(types) == {getIdFromTypeAndParams(t, ParamString(t, u)) : t \in types, u \in UserIds}
HubModes == {NULL, "denied", "subscribe", "unsubscribe"}
HubLeases == {NULL, "0", "10", "abc"}
HubReasons == {NULL, "unauthorized"}
HubChallenges == {"abc123"}

\* The verification GETs on the endpoints of `types`: a parameter the handler
\* does not read on the path a request takes is left out (NULL).
GetRequests(types, modes, leases) ==
    {r \in [type : types, topic : UNION {TopicOf(t) : t \in types} \cup {NULL},
            mode : modes, lease : leases, challenge : HubChallenges,
            reason : HubReasons] :
        /\ r.topic = NULL => r.mode = "subscribe" /\ r.lease = NULL /\ r.reason = NULL
        /\ r.topic # NULL => r.topic \in TopicOf(r.type)
        /\ Denied(r) => r.lease = NULL
        /\ ~Denied(r) => r.reason = NULL}

\* The notification POSTs on the endpoints of `types`: signed with the secret
\* of a record made from one of the base secrets, or not signed; the body
\* parses as JSON or not; a body that parses can come without the JSON
\* content type.
Bodies == {"notification", "malformed"}
BaseSecrets == {ManagerSecret} \cup (OptionSecrets \ {NULL})
PostRequests(types) ==
    {r \in [type : types, search : Searches,
            signature : {NULL} \cup {Hmac(Hmac(base, href), body) :
                            base \in BaseSecrets, body \in Bodies,
                            href \in UNION {TopicOf(t) : t \in types}},
            body : Bodies, json : BOOLEAN] :
        /\ r.search \in {ParamString(r.type, u) : u \in UserIds}
        /\ r.signature # NULL =>
              \E base \in BaseSecrets :
                 r.signature = Hmac(Hmac(base, WebhookTypeTopic(r.type) \o r.search), r.body)
        /\ ~r.json => IsJson(r.body)}

(***************************************************************************)
(* The hub request on its own: resubscribe and unsubscribe of stored and   *)
(* of unknown ids, every answer of the hub.                                *)
(***************************************************************************)
NextHubRequest ==
    \/ App_persistWebhook("StreamChanged", "1", NULL, <<>>)
    \/ \E s \in Slots :
          \/ \E id \in IdsOf({"StreamChanged"}) : unsubscribe_call(s, id)
          \/ unsubscribe(s)
          \/ unsubscribePersistenceObject(s)
          \/ \E id \in IdsOf({"StreamChanged"}) : resubscribe_call(s, id)
          \/ resubscribe(s)
          \/ \E token \in Tokens \cup {Rejects} : changeSub(s, token)
          \/ \E outcome \in HubOutcomes : doHubRequest_first(s, outcome)
          \/ \E token \in RefreshedTokens \cup {Rejects} : doHubRequest_retry(s, token)
          \/ \E outcome \in HubOutcomes : doHubRequest_second(s, outcome)

SpecHubRequest == Init /\ [][NextHubRequest]_vars

(***************************************************************************)
(* Subscribing: the add...Subscription calls, over stored and new          *)
(* identities.                                                             *)
(***************************************************************************)
NextSubscribe ==
    \/ \E t \in WebhookType, u \in UserIds, os \in OptionSecrets, ol \in OptionLeases :
          App_persistWebhook(t, u, os, ol)
    \/ \E s \in Slots :
          \/ \E t \in WebhookType, u \in UserIds, os \in OptionSecrets, ol \in OptionLeases :
                addSubscription(s, t, u, os, ol)
          \/ subscribeOrGetSubscription(s)

SpecSubscribe == Init /\ [][NextSubscribe]_vars

(***************************************************************************)
(* Subscribing through a supplied persistence manager: the subscribe calls *)
(* of one topic and their hub requests, every answer of the hub.           *)
(***************************************************************************)
NextSubscribeSupplied ==
    \/ App_persistWebhook("StreamChanged", "1", NULL, <<>>)
    \/ \E s \in Slots :
          \/ \E t \in WebhookType : addSubscription(s, t, "1", NULL, <<>>)
          \/ subscribeOrGetSubscription(s)
          \/ \E token \in Tokens \cup {Rejects} : changeSub(s, token)
          \/ \E outcome \in HubOutcomes : doHubRequest_first(s, outcome)
          \/ \E token \in RefreshedTokens \cup {Rejects} : doHubRequest_retry(s, token)
          \/ \E outcome \in HubOutcomes : doHubRequest_second(s, outcome)

SpecSubscribeSupplied == InitSupplied /\ [][NextSubscribeSupplied]_vars

(***************************************************************************)
(* Verification: the hub's GETs on one endpoint, for a stored record and   *)
(* for none, before any time has passed: the renewals they arm do not come *)
(* due.                                                                    *)
(***************************************************************************)
NextVerification ==
    \/ \E ol \in OptionLeases : App_persistWebhook("UserFollows", "1", NULL, ol)
    \/ \E s \in Slots :
          \/ \E r \in GetRequests({"UserFollows"}, HubModes, HubLeases) :
                verification_request(s, r)
          \/ verification(s)

SpecVerification == Init /\ [][NextVerification]_vars

(***************************************************************************)
(* Renewal: granted verifications, the timers they arm, the renewals the   *)
(* timers start and the unsubscribe that disarms them.                     *)
(***************************************************************************)
NextRenewal ==
    \/ App_persistWebhook("UserFollows", "1", NULL, <<10>>)
    \/ Tick
    \/ \E s \in Slots :
          \/ \E r \in GetRequests({"UserFollows"}, {"subscribe"}, {NULL, "0"}) :
                verification_request(s, r)
          \/ verification(s)
          \/ \E t \in timers : resubHandler(s, t)
          \/ resubscribePersistenceObject(s)
          \/ \E id \in IdsOf({"UserFollows"}) : unsubscribe_call(s, id)
          \/ unsubscribe(s)
          \/ unsubscribePersistenceObject(s)
          \/ \E token \in Tokens : changeSub(s, token)
          \/ \E outcome \in {<<>>, <<202>>} : doHubRequest_first(s, outcome)

SpecRenewal == Init /\ [][NextRenewal]_vars

(***************************************************************************)
(* The scheduler on its own: records with their dates handed to            *)
(* addToScheduler at any time, removeFromScheduler, destroy, the clock and *)
(* the renewals the callbacks start.  A renewal started here stays in      *)
(* flight, waiting for its OAuth token: how it goes on is in the renewal   *)
(* specification above.                                                    *)
(***************************************************************************)
SubscriptionStarts == {0}
SubscriptionEnds == {1, 20}
\* Subscribed records as a granted verification leaves them.
SubscribedWebhooks ==
    {Put(Put(Put(createWebhookPersistenceObject("UserFollows",
                                                ParamString("UserFollows", "1"), NULL, <<>>),
                 "subscribed", TRUE),
             "subscriptionStart", Date(st)),
         "subscriptionEnd", Date(en)) : st \in SubscriptionStarts, en \in SubscriptionEnds}

NextScheduler ==
    \/ \E webhook \in SubscribedWebhooks : addToScheduler(webhook)
    \/ \E id \in IdsOf({"UserFollows"}) : removeFromScheduler(id)
    \/ destroy
    \/ Tick
    \/ \E s \in Slots :
          \/ \E t \in timers : resubHandler(s, t)

SpecScheduler == Init /\ [][NextScheduler]_vars

\* The event loop runs a callback of the immediate queue on its next turn.
SchedulerFairness ==
    WF_vars(\E s \in Slots : \E t \in timers : t.immediate /\ resubHandler(s, t))
SpecSchedulerFair == SpecScheduler /\ SchedulerFairness

(***************************************************************************)
(* Notification: the hub's POSTs through the verification middleware.      *)
(***************************************************************************)
NextNotification ==
    \/ \E os \in OptionSecrets : App_persistWebhook("UserFollows", "1", os, <<>>)
    \/ \E s \in Slots :
          \/ \E r \in PostRequests({"UserFollows"}) : notification_request(s, r)
          \/ notification(s)

SpecNotification == Init /\ [][NextNotification]_vars

(***************************************************************************)
(* Properties of subscribing (SpecSubscribe).                              *)
(***************************************************************************)
Subscribes == {s \in Slots : procs[s].kind = "sub"}
\* The subscribe call found no record for its identity.
FoundNone(p) == p.webhook = EmptyObject
\* Two subscribe calls resolved to the id of their identity and one POST went
\* to the hub between them.
SameIdOnePost(p, q) ==
    /\ p.ret = "resolved" /\ q.ret = "resolved"
    /\ p.result = p.id /\ q.result = p.id
    /\ Len(p.posts) + Len(q.posts) = 1

\* C1: the same subscribe request issued twice in sequence, the second after
\* the first has returned, for an identity with no record at the start,
\* returns the same id both times and sends exactly one hub request in total.
C1_SequentialSubscribeOnce ==
    \A a \in Subscribes, b \in Subscribes :
        (/\ procs[a].id = procs[b].id
         /\ procs[a].op \in procs[b].seenDone
         /\ FoundNone(procs[a])
         /\ procs[b].pc = "done")
        => SameIdOnePost(procs[a], procs[b])

\* C2: two subscribe calls for the same identity that overlap (the second
\* starts before the first has settled), for an identity with no record at
\* the start, both resolve to the same id and exactly one hub request is sent.
C2_ConcurrentSubscribeOnce ==
    \A a \in Subscribes, b \in Subscribes :
        (/\ procs[a].id = procs[b].id
         /\ procs[a].op < procs[b].op
         /\ procs[a].op \notin procs[b].seenDone
         /\ FoundNone(procs[a])
         /\ procs[a].pc = "done" /\ procs[b].pc = "done")
        => SameIdOnePost(procs[a], procs[b])

\* C10: once a subscribe call is past its lookup, a record for its identity
\* is in persistence unless it was explicitly deleted; in particular it is
\* there whenever a hub request of the call has been sent.
C10_RecordPersistedBeforeHubRequest ==
    \A s \in Subscribes :
        (procs[s].pc # "sub_lookup" /\ procs[s].id \notin deletedIds)
        => procs[s].id \in DOMAIN webhooks

(***************************************************************************)
(* Properties of the verification GET (SpecVerification).                  *)
(***************************************************************************)
\* The verification GET in slot s read an existing record.
FoundRecord(p) == p.kind = "get" /\ Has(p.webhook, "id")

C4_DeniedVerification ==
    [][\A s \in Slots :
          LET p == procs[s]
              q == procs'[s]
          IN (/\ FoundRecord(p) /\ Denied(p.in)
              /\ p.pc \in {"get_lookup", "get_deleted"} /\ q.pc # p.pc)
             => /\ p.id \notin DOMAIN webhooks'
                /\ timers' = timers
                /\ webhookURLToTimeout' = webhookURLToTimeout
                /\ q.response = Response(200, "")
                /\ q.pc = "get_deleted" => q.evts = <<>>
                /\ q.pc = "done" =>
                      q.evts = <<Event("error", p.id,
                                       IF p.in.reason = NULL THEN NoReasonGiven
                                       ELSE p.in.reason)>>]_vars

\* A denied verification with no hub.reason has deleted a stored record and
\* emitted its error event.
C4_Witness ==
    \E s \in Slots :
        /\ FoundRecord(procs[s]) /\ Denied(procs[s].in)
        /\ procs[s].in.reason = NULL
        /\ procs[s].pc = "done"
        /\ Len(procs[s].evts) = 1
        /\ procs[s].id \notin DOMAIN webhooks

\* C5: every persisted record with subscribed = true has subscriptionStart
\* and subscriptionEnd, and subscriptionEnd is later than subscriptionStart.
C5_SubscribedHasLease ==
    \A id \in DOMAIN webhooks :
        LET w == webhooks[id]
        IN (Has(w, "subscribed") /\ w.subscribed)
           => /\ DatesDefined(w)
              /\ DatesValid(w)
              /\ getTime(w.subscriptionEnd) > getTime(w.subscriptionStart)

(***************************************************************************)
(* Properties of the notification POST (SpecNotification).                 *)
(***************************************************************************)
\* The POST carries a signature, a record is stored for its id and the
\* signature is the digest of the body under that record's secret.
Authentic(r) ==
    LET id == getIdFromTypeAndParams(r.type, r.search)
    IN /\ r.signature # NULL
       /\ id \in DOMAIN webhooks
       /\ r.signature = Hmac(webhooks[id].secret, r.body)

\* C6: a POST that the middleware has finished with reached the notification
\* handler if and only if it is authentic; every other POST was answered with
\* a client error and caused no 'message' event.
C6_OnlyAuthenticDelivered ==
    \A s \in Slots :
        LET p == procs[s]
        IN (p.kind = "post" /\ p.pc = "done")
           => /\ p.handler <=> Authentic(p.in)
              /\ ~Authentic(p.in) =>
                    /\ p.response.sent
                    /\ p.response.status \in 400..499
                    /\ p.evts = <<>>

(***************************************************************************)
(* Properties of the hub request (SpecHubRequest).                         *)
(***************************************************************************)
\* C7: when the hub answered the first POST with 401 and the retried POST
\* with 2xx, the hub request succeeded, the refresh callback was called
\* exactly once, the retried POST carries the refreshed token and the body of
\* the first, and the operation goes on as after a success.
C7_RetryAfter401 ==
    \A s \in Slots :
        LET p == procs[s]
        IN (Len(p.resps) = 2 /\ p.resps[1] = 401 /\ Is2xx(p.resps[2]))
           => /\ HubOk(p)
              /\ p.refreshes = 1
              /\ Len(p.posts) = 2
              /\ p.posts[2].token \in RefreshedTokens
              /\ p.posts[2].token # p.posts[1].token
              /\ p.posts[2].body = p.posts[1].body
              /\ (p.kind = "resub" /\ p.pc = "done") => p.ret = "resolved"
              /\ (p.kind = "unsub" /\ p.pc = "done") => p.result = "unsubscribed"

\* A resubscribe whose first POST got 401 and whose retry got 202 has resolved.
C7_Witness ==
    \E s \in Slots :
        /\ procs[s].kind = "resub" /\ procs[s].pc = "done"
        /\ procs[s].resps = <<401, 202>>
        /\ procs[s].ret = "resolved"

\* C8: a hub request sends at most two POSTs and refreshes the token at most
\* once; the second POST follows a 401 only; a first answer that is neither
\* 2xx nor 401, and a second answer that is not 2xx, end the request as
\* failed with no further POST.
C8_AtMostOneRetry ==
    \A s \in Slots :
        LET p == procs[s]
        IN /\ Len(p.posts) <= 2
           /\ p.refreshes <= 1
           /\ Len(p.posts) = 2 => (Len(p.resps) >= 1 /\ p.resps[1] = 401)
           /\ p.refreshes = 1 => (Len(p.resps) >= 1 /\ p.resps[1] = 401)
           /\ (Len(p.resps) = 1 /\ ~Is2xx(p.resps[1]) /\ p.resps[1] # 401)
                 => (p.hub = "failed" /\ Len(p.posts) = 1 /\ p.refreshes = 0)
           /\ (Len(p.resps) = 2 /\ ~Is2xx(p.resps[2]))
                 => (p.hub = "failed" /\ Len(p.posts) = 2)
           /\ (p.hub = "failed" /\ p.kind = "resub" /\ p.pc = "done")
                 => p.ret = "rejected"

\* A resubscribe whose two POSTs both got 401 has been rejected.
C8_Witness ==
    \E s \in Slots :
        /\ procs[s].kind = "resub" /\ procs[s].pc = "done"
        /\ procs[s].resps = <<401, 401>>
        /\ procs[s].ret = "rejected"

(***************************************************************************)
(* Properties of the renewals (SpecRenewal).                               *)
(***************************************************************************)
\* The setTimeout timers armed to renew the record of id.
ArmedFor(pending, id) == {t \in pending : IdOf(t.webhook) = id /\ ~t.immediate}

\* C9: the step that completes the unsubscribe of an existing record, after
\* a successful hub request, leaves no record of its id in persistence and
\* no renewal timeout armed for its id.
C9_UnsubscribeDisarms ==
    [][\A s \in Slots :
          LET p == procs[s]
          IN (/\ p.kind = "unsub" /\ Has(p.webhook, "id")
              /\ p.pc = "unsub_deleted" /\ procs'[s].pc = "done")
             => /\ p.id \notin DOMAIN webhooks'
                /\ ArmedFor(timers', p.id) = {}]_vars

(***************************************************************************)
(* Properties of subscribing through a supplied persistence manager        *)
(* (SpecSubscribeSupplied).                                                *)
(***************************************************************************)
\* The hub request of the call in slot s was sent and failed: got.post
\* rejected, the answer was not 2xx, or the token refresh of the retry failed.
HubRequestFailed(p) == p.posts # <<>> /\ p.hub = "failed"

\* C11: when the hub request of a subscribe call has failed, the record the
\* call persisted for its identity stays in persistence with subscribed =
\* false, and the call ends rejected.
C11_FailedSubscribeKeepsRecord ==
    \A s \in Subscribes :
        LET p == procs[s]
        IN HubRequestFailed(p)
           => /\ p.id \in DOMAIN webhooks
              /\ webhooks[p.id] = p.in.webhook
              /\ webhooks[p.id].subscribed = FALSE
              /\ p.pc = "done" => p.ret = "rejected"

\* A subscribe call for a new identity was rejected after the hub answered
\* 429, and its record is stored.
C11_Witness ==
    \E s \in Subscribes :
        /\ procs[s].pc = "done" /\ procs[s].ret = "rejected"
        /\ procs[s].resps = <<429>>
        /\ HubRequestFailed(procs[s])
        /\ procs[s].id \in DOMAIN webhooks
        /\ ~webhooks[procs[s].id].subscribed

(***************************************************************************)
(* Properties of inbound requests for ids with no record                   *)
(* (SpecVerification).                                                     *)
(***************************************************************************)
\* The lookup of the request in slot s gave no record.
NoRecord(p) == ~Has(p.webhook, "id")

\* C12: every step of a verification GET or notification POST whose lookup
\* found no record for the derived id leaves persistence and the scheduler as
\* they were, and the request ends answered 404 with the response sent, with
\* no exception raised and no event emitted.
C12_UnknownIdNotFound ==
    [][\A s \in Slots :
          LET p == procs[s]
              q == procs'[s]
          IN (/\ p.kind \in {"get", "post"}
              /\ p.pc \in {"get_lookup", "mw_lookup", "post_lookup"}
              /\ NoRecord(p)
              /\ q.pc # p.pc)
             => /\ webhooks' = webhooks
                /\ timers' = timers
                /\ webhookURLToTimeout' = webhookURLToTimeout
                /\ q.pc = "done"
                /\ q.response = Response(404, "")
                /\ q.result = ""
                /\ q.evts = <<>>]_vars

(***************************************************************************)
(* Properties of unsubscribe and resubscribe of unknown ids                *)
(* (SpecHubRequest).                                                       *)
(***************************************************************************)
\* C13: with the in-memory persistence manager, an unsubscribe(id) or
\* resubscribe(id) whose id has no record sends no hub request and, once past
\* its lookup, has failed with the not-found error.
C13_UnknownIdRejected ==
    \A s \in Slots :
        LET p == procs[s]
        IN (/\ persistenceManager = MemoryBased
            /\ p.kind \in {"unsub", "resub"}
            /\ NoRecord(p))
           => /\ p.posts = <<>>
              /\ p.pc \notin {"unsub_lookup", "resub_lookup"} =>
                    /\ p.pc = "done"
                    /\ p.ret = "rejected"
                    /\ p.result = CouldNotBeFound

(***************************************************************************)
(* Properties of the scheduler (SpecScheduler).                            *)
(***************************************************************************)
\* The calls of addToScheduler so far, by the handle each one took.
Armed == DOMAIN schedulerLog.armed
ArmedTimer(h) == schedulerLog.armed[h].timer
ArmedAt(h) == schedulerLog.armed[h].at
ArmedStart(h) == getTime(ArmedTimer(h).webhook.subscriptionStart)
ArmedEnd(h) == getTime(ArmedTimer(h).webhook.subscriptionEnd)
\* The times resubHandler ran for the call that took handle h.
ResubCalled(h) ==
    IF h \in DOMAIN schedulerLog.resubCalled THEN schedulerLog.resubCalled[h] ELSE <<>>

\* C14: every addToScheduler call at a time at or after subscriptionStart
\* arms the renewal with the delay 0.85 * (subscriptionEnd -
\* subscriptionStart) - (now - subscriptionStart): a timer of that delay, or
\* the immediate queue when it is not positive.
C14_DelayFromStart ==
    \A h \in Armed :
        LET delay == ResubFraction(ArmedEnd(h) - ArmedStart(h)) - (ArmedAt(h) - ArmedStart(h))
        IN ArmedAt(h) >= ArmedStart(h)
           => IF delay <= 0 THEN ArmedTimer(h).immediate
              ELSE /\ ~ArmedTimer(h).immediate
                   /\ ArmedTimer(h).due = ArmedAt(h) + TimeoutDelay(delay)

\* removeFromScheduler(id) or destroy() was called while the callback of
\* handle h was pending.
Cancelled(h) ==
    \/ \E r \in schedulerLog.removed : r.handle = h
    \/ h \in schedulerLog.destroyed
\* The invocation times of the renewal armed under handle h.
InvokedAt(h) == {ResubCalled(h)[i] : i \in 1..Len(ResubCalled(h))}

LeavesATick(h) == (ArmedEnd(h) - ArmedAt(h)) * (100 - ResubPercent) >= 100

RemovedBeforeDeadline(r) ==
    ~ArmedTimer(r.handle).immediate /\ r.at < ArmedTimer(r.handle).due
\* The callback was pending and already due: a timer whose time had come, or
\* a callback on the immediate queue (computed delay <= 0).
RemovedWhenDue(r) ==
    ArmedTimer(r.handle).immediate \/ r.at >= ArmedTimer(r.handle).due

\* C16: a renewal armed for an id is never invoked once removeFromScheduler
\* was called for that id strictly before the renewal's deadline.
C16_RemovedBeforeDeadlineNeverInvoked ==
    \A r \in schedulerLog.removed :
        RemovedBeforeDeadline(r) => InvokedAt(r.handle) = {}

\* C17: a renewal armed for an id that was already due and had not run when
\* removeFromScheduler was called for that id, a renewal queued with a
\* computed delay <= 0 included, is never invoked.
C17_RemovedWhenDueNeverInvoked ==
    \A r \in schedulerLog.removed :
        RemovedWhenDue(r) => InvokedAt(r.handle) = {}

\* The record of the call that took handle h had its subscriptionEnd in the
\* past at the call.
Expired(h) == ArmedEnd(h) < ArmedAt(h)
Handles == 1..MaxTimers

\* C18: an addToScheduler call for a record whose subscriptionEnd is in the
\* past does not invoke the renewal itself; it leaves the renewal on the
\* immediate queue, runnable without any wait on the clock, and the renewal
\* is then invoked.
C18_ExpiredRenewedPromptly ==
    /\ [][\A h \in Handles :
            (h \in DOMAIN schedulerLog'.armed /\ h \notin Armed /\ Expired(h)')
            => /\ schedulerLog'.resubCalled = schedulerLog.resubCalled
               /\ procs' = procs
               /\ ArmedTimer(h)' \in timers'
               /\ ArmedTimer(h)'.immediate
               /\ TimerDue(ArmedTimer(h))']_vars
    /\ \A h \in Handles :
          (h \in Armed /\ Expired(h)) ~> (h \in Armed /\ InvokedAt(h) # {})

\* The renewal of a record added after its subscriptionEnd has been invoked,
\* at the time of the addToScheduler call.
C18_Witness ==
    \E h \in Armed : Expired(h) /\ InvokedAt(h) = {ArmedAt(h)}

\* The handles webhookURLToTimeout holds.
MappedHandles == {webhookURLToTimeout[id] : id \in DOMAIN webhookURLToTimeout}

\* C19: every run of resubHandler belongs to one addToScheduler call and
\* every call has at most one; once its renewal has been invoked the call
\* has no callback pending and no handle in the map, so the renewal of the id
\* is invoked again only through another addToScheduler call.
C19_OneInvocationPerCall ==
    /\ DOMAIN schedulerLog.resubCalled \subseteq Armed
    /\ \A h \in Armed :
          /\ Len(ResubCalled(h)) <= 1
          /\ InvokedAt(h) # {} =>
                /\ \A t \in timers : t.handle # h
                /\ h \notin MappedHandles

\* A renewal has been invoked once, later the clock has moved on and no
\* callback is pending.
C19_Witness ==
    \E h \in Armed :
        /\ Len(ResubCalled(h)) = 1
        /\ now > ResubCalled(h)[1]
        /\ timers = {}

\* C20: a renewal that was pending when destroy() was called is never
\* invoked afterwards, whatever delay addToScheduler had computed for it.
C20_DestroyedNeverInvoked ==
    \A h \in schedulerLog.destroyed : InvokedAt(h) = {}

(***************************************************************************)
(* Shutting down: destroy() of a manager whose supplied persistence        *)
(* manager keeps its data, while unsubscribe calls and their hub requests  *)
(* are in flight.                                                          *)
(***************************************************************************)
NextDestroy ==
    \/ App_persistWebhook("UserFollows", "1", NULL, <<10>>)
    \/ destroy
    \/ \E s \in Slots :
          \/ \E id \in IdsOf({"UserFollows"}) : unsubscribe_call(s, id)
          \/ unsubscribe(s)
          \/ unsubscribePersistenceObject(s)
          \/ \E token \in Tokens : changeSub(s, token)
          \/ \E outcome \in {<<>>, <<202>>} : doHubRequest_first(s, outcome)

SpecDestroy == InitSupplied /\ [][NextDestroy]_vars

(***************************************************************************)
(* Properties of shutting down (SpecDestroy).                              *)
(***************************************************************************)
\* The operation in slot s was in flight when destroy() returned and takes
\* this step.
StepsAfterDestroy(s) ==
    /\ schedulerLog.managerDestroyed
    /\ ~Free(s)
    /\ procs[s].op \in schedulerLog.inFlight
    /\ procs'[s] # procs[s]

\* C21: once destroy() has returned, a step of an operation that was in flight
\* then (the completion of its hub request, the continuation of a callback)
\* creates, changes and deletes no persisted record and arms no renewal timer.
C21_NoEffectAfterDestroy ==
    [][\A s \in Slots :
          StepsAfterDestroy(s) => webhooks' = webhooks /\ timers' \subseteq timers]_vars

(***************************************************************************)
(* Unsubscribing: unsubscribe calls and their hub requests, interleaved    *)
(* with the hub's verification GETs for the same record (of a subscription *)
(* and of an unsubscription).                                              *)
(***************************************************************************)
NextUnsubscribe ==
    \/ App_persistWebhook("UserFollows", "1", NULL, <<10>>)
    \/ \E s \in Slots :
          \/ \E r \in GetRequests({"UserFollows"}, {"subscribe", "unsubscribe"}, {NULL}) :
                verification_request(s, r)
          \/ verification(s)
          \/ \E id \in IdsOf({"UserFollows"}) : unsubscribe_call(s, id)
          \/ unsubscribe(s)
          \/ unsubscribePersistenceObject(s)
          \/ \E token \in Tokens : changeSub(s, token)
          \/ \E outcome \in {<<>>, <<202>>} : doHubRequest_first(s, outcome)

SpecUnsubscribe == Init /\ [][NextUnsubscribe]_vars

(***************************************************************************)
(* Properties of unsubscribing (SpecUnsubscribe).                          *)
(***************************************************************************)
\* The events the operations in the slots have emitted.
Emitted == UNION {{procs[s].evts[i] : i \in DOMAIN procs[s].evts} : s \in Slots}
\* unsubscribePersistenceObject of a verified record ran to its end.
Unsubscribed(p) ==
    /\ p.kind = "unsub" /\ p.pc = "done" /\ p.result = "unsubscribed"
    /\ Has(p.webhook, "subscribed") /\ p.webhook.subscribed
\* The hub's verification GET of the unsubscription of p has been handled.
UnsubscriptionVerified(p, g) ==
    /\ g.kind = "get" /\ g.pc = "done" /\ g.op > p.op
    /\ g.id = IdOf(p.webhook) /\ g.in.mode = "unsubscribe"

\* C22: after a verified subscription has been unsubscribed, the manager has
\* emitted 'unsubscribed' with the subscription's id, at the latest when the
\* hub's verification of the unsubscription has been handled, and the record
\* is absent from persistence then.
C22_UnsubscribedEmitted ==
    \A u \in Slots, g \in Slots :
        (Unsubscribed(procs[u]) /\ UnsubscriptionVerified(procs[u], procs[g]))
        => /\ Event("unsubscribed", IdOf(procs[u].webhook), NULL) \in Emitted
           /\ ~Has(webhooks, IdOf(procs[u].webhook))

(***************************************************************************)
(* unsubFromAll(): one unsubscribePersistenceObject per stored record, all *)
(* started in one turn, each with its failure caught and logged; the call  *)
(* resolves when all of them have settled.                                 *)
(***************************************************************************)
\* Array.from(this.webhooks.values())
getAllWebhooks(map) ==
    LET n == Cardinality(DOMAIN map)
        order == CHOOSE f \in [1..n -> DOMAIN map] : \A i, j \in 1..n : f[i] = f[j] => i = j
    IN [i \in 1..n |-> map[order[i]]]

\* The promise of the operation is one of those unsubFromAll waits for.
AwaitedByAll == "Promise.all"

unsubFromAll ==
    /\ opsStarted = 0
    /\ webhooks # EmptyObject
    /\ Cardinality(DOMAIN webhooks) <= MaxProcs
    /\ LET stored == getAllWebhooks(webhooks)
       IN /\ procs' = [s \in Slots |->
                IF s \in DOMAIN stored
                THEN changeSub_call([New("unsub") EXCEPT !.op = s, !.ret = AwaitedByAll,
                                                         !.id = IdOf(stored[s])],
                                    stored[s], FALSE)
                ELSE procs[s]]
          /\ opsStarted' = Len(stored)
    /\ UNCHANGED <<webhooks, webhookURLToTimeout, timers, nextHandle, renewalScheduler,
                   persistenceManager, schedulerLog, now, ticks, deletedIds>>

NextUnsubFromAll ==
    \/ \E t \in {"UserFollows", "StreamChanged"} : App_persistWebhook(t, "1", NULL, <<>>)
    \/ unsubFromAll
    \/ \E s \in Slots :
          \/ unsubscribePersistenceObject(s)
          \/ \E token \in Tokens : changeSub(s, token)
          \/ \E outcome \in {<<>>, <<202>>, <<429>>} : doHubRequest_first(s, outcome)

SpecUnsubFromAll == Init /\ [][NextUnsubFromAll]_vars

\* Every unsubscribePersistenceObject that unsubFromAll started has settled.
UnsubFromAllResolved ==
    /\ \E s \in Slots : procs[s].ret = AwaitedByAll
    /\ \A s \in Slots : procs[s].ret = AwaitedByAll => procs[s].pc = "done"

\* C23: when unsubFromAll() resolves, persistence holds no records, whatever
\* the stored records were and whatever the hub answered.
C23_UnsubFromAllLeavesNone ==
    UnsubFromAllResolved => webhooks = EmptyObject

(***************************************************************************)
(* The in-memory persistence manager on its own: persistWebhook,           *)
(* saveWebhook and deleteWebhook called in any order on records of two     *)
(* ids.  Every call is an operation that has settled when it returns.      *)
(***************************************************************************)
\* The records handed to the persistence manager: new ones of two topics and
\* verified ones.
PersistenceObjects ==
    {createWebhookPersistenceObject(t, ParamString(t, "1"), NULL, <<>>) :
        t \in {"UserFollows", "StreamChanged"}} \cup SubscribedWebhooks
PersistenceIds == {IdOf(w) : w \in PersistenceObjects}

call_persistWebhook(s, webhook) ==
    /\ CanStart(s)
    /\ webhooks' = persistWebhook(webhooks, webhook)
    /\ procs' = [procs EXCEPT ![s] =
          [New("persistWebhook") EXCEPT !.ret = "resolved", !.webhook = webhook,
                                        !.id = IdOf(webhook)]]
    /\ opsStarted' = opsStarted + 1
    /\ UNCHANGED <<webhookURLToTimeout, timers, nextHandle, renewalScheduler,
                   persistenceManager, schedulerLog, now, ticks, deletedIds>>

call_saveWebhook(s, webhook) ==
    /\ CanStart(s)
    /\ webhooks' = saveWebhook(webhooks, webhook)
    /\ procs' = [procs EXCEPT ![s] =
          [New("saveWebhook") EXCEPT !.ret = "resolved", !.webhook = webhook,
                                     !.id = IdOf(webhook)]]
    /\ opsStarted' = opsStarted + 1
    /\ UNCHANGED <<webhookURLToTimeout, timers, nextHandle, renewalScheduler,
                   persistenceManager, schedulerLog, now, ticks, deletedIds>>

call_deleteWebhook(s, id) ==
    /\ CanStart(s)
    /\ webhooks' = deleteWebhook(webhooks, id)
    /\ deletedIds' = deletedIds \cup {id}
    /\ procs' = [procs EXCEPT ![s] = [New("deleteWebhook") EXCEPT !.ret = "resolved", !.id = id]]
    /\ opsStarted' = opsStarted + 1
    /\ UNCHANGED <<webhookURLToTimeout, timers, nextHandle, renewalScheduler,
                   persistenceManager, schedulerLog, now, ticks>>

NextPersistence ==
    \E s \in Slots :
        \/ \E webhook \in PersistenceObjects : call_persistWebhook(s, webhook)
        \/ \E webhook \in PersistenceObjects : call_saveWebhook(s, webhook)
        \/ \E id \in PersistenceIds : call_deleteWebhook(s, id)

SpecPersistence == Init /\ [][NextPersistence]_vars

(***************************************************************************)
(* Properties of the in-memory persistence manager (SpecPersistence).      *)
(***************************************************************************)
\* The call in slot s stored a record and no later call was made for its id:
\* every later call is still in a slot and was for another id.
StoredLast(s) ==
    /\ procs[s].kind \in {"persistWebhook", "saveWebhook"}
    /\ \A o \in (procs[s].op + 1)..opsStarted :
          \E t \in Slots : procs[t].op = o /\ procs[t].id # procs[s].id

\* C24: after any sequence of persistWebhook, saveWebhook and deleteWebhook,
\* getWebhookById(id) returns a record equal field by field to the one most
\* recently persisted or saved under that id, when it was not deleted since.
C24_GetReturnsLastStored ==
    \A s \in Slots :
        StoredLast(s) => getWebhookById(webhooks, procs[s].id) = procs[s].webhook

\* A saveWebhook replaced the record an earlier persistWebhook stored under
\* the same id by a different one.
C24_Witness ==
    \E s \in Slots, t \in Slots :
        /\ StoredLast(s) /\ procs[s].kind = "saveWebhook"
        /\ procs[t].kind = "persistWebhook" /\ procs[t].op < procs[s].op
        /\ procs[t].id = procs[s].id /\ procs[t].webhook # procs[s].webhook

\* C25: getWebhookById(id) returns undefined for an id that was deleted or
\* never stored, and deleteWebhook of an id that is not stored leaves the
\* records as they are.
C25_AbsentIdUndefined ==
    \A id \in PersistenceIds :
        id \notin DOMAIN webhooks
        => /\ getWebhookById(webhooks, id) = Undefined
           /\ deleteWebhook(webhooks, id) = webhooks

(***************************************************************************)
(* persistence.ts: computeTopicParamString over a Map of query parameters. *)
(* A Map is the sequence of its <<name, value>> entries in insertion       *)
(* order, the names distinct.                                              *)
(***************************************************************************)
ParamNames == {"first", "from_id", "to_id"}
\* The value each name is given.
ParamValue(name) == IF name = "to_id" THEN "a b" ELSE IF name = "from_id" THEN "2" ELSE "1"
\* The place of a name in the order of Array.prototype.sort() (UTF-16 code
\* units): "first" < "from_id" < "to_id".
CodeUnitRank(name) == IF name = "first" THEN 1 ELSE IF name = "from_id" THEN 2 ELSE 3

\* encodeURIComponent(val): a space is escaped, digits and letters are kept.
encodeURIComponent(val) == IF val = "a b" THEN "a%20b" ELSE val

\* Array.from(map.keys())
keys(params) == [i \in DOMAIN params |-> params[i][1]]
\* map.get(name)
get(params, name) == params[CHOOSE i \in DOMAIN params : params[i][1] = name][2]

\* The names left in the order they were inserted.
sort_none(names) == names
\* names.sort()
sort(names) ==
    CHOOSE sorted \in [DOMAIN names -> {names[i] : i \in DOMAIN names}] :
        /\ \A i \in DOMAIN names : \E j \in DOMAIN names : sorted[j] = names[i]
        /\ \A i, j \in DOMAIN names : i < j => CodeUnitRank(sorted[i]) < CodeUnitRank(sorted[j])

RECURSIVE topicParams(_, _, _)
\* The loop over the sorted names: '?' before the first, '&' before the others.
topicParams(names, params, isFirst) ==
    IF names = <<>> THEN ""
    ELSE (IF isFirst THEN "?" ELSE "&") \o names[1] \o "="
            \o encodeURIComponent(get(params, names[1]))
            \o topicParams(Tail(names), params, FALSE)

computeTopicParamString(params) == topicParams(sort(keys(params)), params, TRUE)

\* The Maps over the names of the model, in every insertion order.
ParamMaps ==
    {m \in UNION {[1..n -> {<<name, ParamValue(name)>> : name \in ParamNames}] :
                     n \in 1..Cardinality(ParamNames)} :
        \A i, j \in DOMAIN m : m[i][1] = m[j][1] => i = j}

\* createWebhookPersistenceObject(manager, type, params, {}) called with a
\* Map of parameters; the object it returns is kept with the arguments.
call_createWebhookPersistenceObject(s, type, params) ==
    /\ CanStart(s)
    /\ procs' = [procs EXCEPT ![s] =
          [New("create") EXCEPT !.ret = "resolved", !.in = [type |-> type, params |-> params],
              !.webhook = createWebhookPersistenceObject(type, computeTopicParamString(params),
                                                         NULL, <<>>)]]
    /\ opsStarted' = opsStarted + 1
    /\ UNCHANGED <<webhooks, webhookURLToTimeout, timers, nextHandle, renewalScheduler,
                   persistenceManager, schedulerLog, now, ticks, deletedIds>>

NextParams ==
    \E s \in Slots : \E type \in WebhookType, params \in ParamMaps :
        call_createWebhookPersistenceObject(s, type, params)

SpecParams == Init /\ [][NextParams]_vars

\* The entries of a Map, whatever their order.
Entries(params) == {params[i] : i \in DOMAIN params}
Created == {s \in Slots : procs[s].kind = "create"}

\* C26: for every topic type and every two parameter maps that hold the same
\* (name, value) pairs inserted in different orders, the computed
\* subscription id and the topic href are the same.
C26_InsertionOrderIrrelevant ==
    \A a \in Created, b \in Created :
        (/\ procs[a].in.type = procs[b].in.type
         /\ Entries(procs[a].in.params) = Entries(procs[b].in.params))
        => /\ procs[a].webhook.id = procs[b].webhook.id
           /\ procs[a].webhook.href = procs[b].webhook.href

\* Two objects were created from Maps with the same three entries inserted in
\* different orders.
C26_Witness ==
    \E a \in Created, b \in Created :
        /\ procs[a].in.type = procs[b].in.type
        /\ Entries(procs[a].in.params) = Entries(procs[b].in.params)
        /\ procs[a].in.params # procs[b].in.params
        /\ Len(procs[a].in.params) = Cardinality(ParamNames)

(***************************************************************************)
(* The secret of a subscription: subscribe calls with and without          *)
(* options.secret through a supplied persistence manager, their hub        *)
(* requests, renewals of the stored record and the hub's POSTs.            *)
(***************************************************************************)
NextSecret ==
    \E s \in Slots :
        \/ \E os \in OptionSecrets : addSubscription(s, "UserFollows", "1", os, <<>>)
        \/ subscribeOrGetSubscription(s)
        \/ \E id \in IdsOf({"UserFollows"}) : resubscribe_call(s, id)
        \/ resubscribe(s)
        \/ \E token \in Tokens : changeSub(s, token)
        \/ \E outcome \in {<<>>, <<202>>} : doHubRequest_first(s, outcome)
        \/ \E r \in PostRequests({"UserFollows"}) : notification_request(s, r)
        \/ notification(s)

SpecSecret == InitSupplied /\ [][NextSecret]_vars

(***************************************************************************)
(* Properties of the secret (SpecSecret).                                  *)
(***************************************************************************)
\* options.secret || manager.config.secret
BaseSecret(options) == IF TruthyStr(options.secret) THEN options.secret ELSE ManagerSecret
\* The subscribe call in p found no record and persisted its own.
Persisted(p) == p.kind = "sub" /\ (p.pc = "sub_persisted" \/ p.subscribe)
\* The middleware found the record of the POST in p and compared the
\* signature with a digest.
Compared(p) ==
    /\ p.kind = "post" /\ p.pc \in {"post_lookup", "done"}
    /\ p.in.signature # NULL /\ p.result = ""
    /\ Has(p.webhook, "secret") /\ p.id \in DOMAIN webhooks

\* C27: the stored secret is the keyed hash of the base secret (options.secret,
\* else the manager's secret) over the topic href and never the base secret
\* itself; hub.secret of every hub request is the stored secret, and a POST
\* passes the middleware exactly when its signature is the keyed hash of its
\* body under the stored secret.
C27_StoredSecretIsKeyedHash ==
    \A s \in Slots :
        LET p == procs[s]
        IN /\ Persisted(p)
              => /\ webhooks[p.id].secret = Hmac(BaseSecret(p.in.options), webhooks[p.id].href)
                 /\ webhooks[p.id].secret # BaseSecret(p.in.options)
           /\ \A i \in DOMAIN p.posts :
                 /\ p.posts[i].body.secret = webhooks[IdOf(p.webhook)].secret
                 /\ p.posts[i].body.secret \notin BaseSecrets
           /\ Compared(p)
              => (p.handler <=> p.in.signature = Hmac(webhooks[p.id].secret, p.in.body))

(***************************************************************************)
(* Properties of the notification handler (SpecNotification).              *)
(***************************************************************************)
\* The POST in p passed the middleware and its handler found a record.
Delivered(p) == p.kind = "post" /\ p.handler /\ p.pc = "done" /\ Has(p.webhook, "id")
MessagesOf(p) == {i \in DOMAIN p.evts : p.evts[i].name = "message"}

\* C28: for an authenticated POST whose record exists, subscribed or not, the
\* handler has answered 200 when it emits 'message' (the listeners find the
\* response sent), the event carries the id of the record, and it is emitted
\* whenever the payload could be read.
C28_AnsweredBeforeMessage ==
    \A s \in Slots :
        LET p == procs[s]
        IN Delivered(p)
           => /\ p.response = Response(200, "")
              /\ \A i \in MessagesOf(p) :
                    /\ p.heard[i] = Response(200, "")
                    /\ p.evts[i].id = p.webhook.id
              /\ p.result = "" => MessagesOf(p) # {}

\* A 'message' event was emitted for a record that is not subscribed.
C28_Witness ==
    \E s \in Slots :
        /\ Delivered(procs[s]) /\ MessagesOf(procs[s]) # {}
        /\ ~procs[s].webhook.subscribed

(***************************************************************************)
(* Properties of unsubscribing and its hub request (SpecUnsubscribe).      *)
(***************************************************************************)
\* C29: when the hub request that unsubscribe(id) triggers has failed, the
\* unsubscribe call itself fails with that error: its promise is rejected,
\* not resolved with the error left to an unhandled rejection.
C29_UnsubscribeFailurePropagated ==
    \A s \in Slots :
        LET p == procs[s]
        IN (p.kind = "unsub" /\ p.pc = "done" /\ HubRequestFailed(p))
           => p.ret = "rejected"

\* The verification GET in g arrived after unsubscribe was called in u, for
\* the same id, and found the record still stored.
Interleaved(u, g) ==
    /\ u.kind = "unsub" /\ FoundRecord(g)
    /\ g.op > u.op /\ g.id = IdOf(u.webhook)

\* C30: a verification GET interleaved with an unsubscribe of the same id
\* loses no update: once both have run to their end after a successful
\* unsubscribe hub request, persistence holds no record of the id and no
\* renewal timer is armed for it.
C30_NoLostUpdate ==
    \A a \in Slots, b \in Slots :
        LET u == procs[a]
            g == procs[b]
        IN (/\ Interleaved(u, g)
            /\ u.pc = "done" /\ HubOk(u)
            /\ g.pc = "done")
           => /\ ~Has(webhooks, g.id)
              /\ \A t \in timers : IdOf(t.webhook) # g.id

(***************************************************************************)
(* Renewing: resubscribe(id) called by the application, and the renewals  *)
(* the scheduler starts at once for a lapsed record handed to it before    *)
(* the first operation.  The hub accepts, refuses or does not answer; the  *)
(* retry after a 401 is in the hub request specification.                  *)
(***************************************************************************)
\* A subscribed record whose lease has run out when init() reads it.
LapsedWebhook ==
    Put(Put(Put(createWebhookPersistenceObject("UserFollows", ParamString("UserFollows", "1"),
                                                NULL, <<10>>),
                "subscribed", TRUE),
            "subscriptionStart", Date(0)),
        "subscriptionEnd", Date(0))

NextResubscribe ==
    \/ App_persistWebhook("UserFollows", "1", NULL, <<10>>)
    \/ opsStarted = 0 /\ addToScheduler(LapsedWebhook)
    \/ \E s \in Slots :
          \/ \E t \in timers : resubHandler(s, t)
          \/ resubscribePersistenceObject(s)
          \/ \E id \in IdsOf({"UserFollows"}) : resubscribe_call(s, id)
          \/ resubscribe(s)
          \/ \E token \in Tokens : changeSub(s, token)
          \/ \E outcome \in {<<>>, <<202>>, <<429>>} : doHubRequest_first(s, outcome)

SpecResubscribe == Init /\ [][NextResubscribe]_vars

(***************************************************************************)
(* Properties of renewing (SpecResubscribe).                               *)
(***************************************************************************)
\* The operation in p renews a record that exists.
Renews(p) == p.kind \in {"renew", "resub"} /\ Has(p.webhook, "id")
\* The POSTs of p ask the hub to subscribe with what the record holds.
SubscribePosts(p) ==
    \A i \in DOMAIN p.posts :
        /\ p.posts[i].body.mode = "subscribe"
        /\ p.posts[i].body.topic = p.webhook.href
        /\ p.posts[i].body.callback = getCallbackUrl(p.webhook)
        /\ p.posts[i].body.secret = p.webhook.secret
        /\ p.posts[i].body.lease_seconds = p.webhook.leaseSeconds

\* C31: a renewal (resubscribePersistenceObject, or resubscribe of an existing
\* id) sends one hub request (one POST, and a second one only after a 401)
\* with mode=subscribe and the record's topic, callback, secret and
\* leaseSeconds, and no step of it changes a persisted record.
C31_RenewalLeavesRecords ==
    [][\A s \in Slots :
          (Renews(procs'[s]) /\ procs'[s] # procs[s])
          => /\ webhooks' = webhooks
             /\ SubscribePosts(procs'[s])
             /\ Len(procs'[s].posts) <= 1 + Len(SelectSeq(procs'[s].resps, Retries))
             /\ (procs'[s].pc = "done" /\ procs'[s].hub # "threw")
                   => Len(procs'[s].posts) >= 1]_vars

\* A renewal started by the scheduler and a resubscribe call have both had
\* their hub request accepted.
C31_Witness ==
    \E s \in Slots, t \in Slots :
        /\ Renews(procs[s]) /\ procs[s].kind = "renew" /\ procs[s].pc = "done" /\ HubOk(procs[s])
        /\ Renews(procs[t]) /\ procs[t].kind = "resub" /\ procs[t].pc = "done" /\ HubOk(procs[t])
        /\ procs[t].webhook = webhooks[procs[t].id]

(***************************************************************************)
(* Properties of a verification GET that carries no hub.topic              *)
(* (SpecVerification).                                                     *)
(***************************************************************************)
\* The GET in p came without hub.topic and its handler has run to its end.
Malformed(p) == p.kind = "get" /\ ~TruthyStr(p.in.topic) /\ p.pc = "done"

\* C32: a verification GET without hub.topic does not throw out of its
\* handler: once the handler has run, nothing was thrown, the request has
\* been answered and an 'error' event has been emitted.
C32_MalformedGetReported ==
    \A s \in Slots :
       Malformed(procs[s])
       => /\ procs[s].result = ""
          /\ procs[s].response.sent
          /\ \E i \in DOMAIN procs[s].evts : procs[s].evts[i].name = "error"

(***************************************************************************)
(* Lease: subscribe calls for one topic over the values options.leaseSeconds*)
(* can take (omitted, 0, inside the range Twitch accepts, its upper end,   *)
(* above it, negative), through a supplied persistence manager; the hub    *)
(* accepts or does not answer.                                             *)
(***************************************************************************)
LeaseOptions == {<<>>, <<0>>, <<10>>, <<DefaultLeaseSeconds>>, <<DefaultLeaseSeconds + 1>>, <<-1>>}

NextLease ==
    \E s \in Slots :
       \/ \E ol \in LeaseOptions : addSubscription(s, "UserFollows", "1", NULL, ol)
       \/ subscribeOrGetSubscription(s)
       \/ \E token \in Tokens : changeSub(s, token)
       \/ \E outcome \in {<<>>, <<202>>} : doHubRequest_first(s, outcome)

SpecLease == InitSupplied /\ [][NextLease]_vars

(***************************************************************************)
(* Properties of the lease of a subscription (SpecLease).                  *)
(***************************************************************************)
\* C33: every record a subscribe call has created holds a leaseSeconds
\* between 0 and 864000 inclusive, whatever options.leaseSeconds was, and the
\* hub.lease_seconds of the subscribe request equals the record's
\* leaseSeconds.
C33_LeaseWithinRange ==
    \A s \in Slots :
       (procs[s].kind = "sub" /\ (procs[s].pc = "sub_persisted" \/ procs[s].subscribe))
       => /\ webhooks[procs[s].id].leaseSeconds >= 0
          /\ webhooks[procs[s].id].leaseSeconds <= DefaultLeaseSeconds
          /\ \A i \in DOMAIN procs[s].posts :
                procs[s].posts[i].body.lease_seconds = webhooks[procs[s].id].leaseSeconds

(***************************************************************************)
(* init(): every stored record is handed to the renewal scheduler.         *)
(***************************************************************************)
\* addToScheduler(webhook) inside the loop of init(), on the scheduler's
\* timers, handle map, history and next handle: reading getTime() of a date
\* that is undefined throws a TypeError out of the loop.
init_addToScheduler(st, webhook, clock) ==
    IF ~DatesDefined(webhook)
    THEN [st EXCEPT !.passed = Append(@, webhook), !.threw = TRUE]
    ELSE LET immediate == DatesValid(webhook) /\ TimeLeft(webhook, clock) <= 0
             timer == [handle |-> st.next, webhook |-> webhook, immediate |-> immediate,
                       due |-> IF immediate THEN clock
                               ELSE clock + TimeoutDelay(
                                        IF DatesValid(webhook)
                                        THEN ResubFraction(TimeLeft(webhook, clock)) ELSE 0)]
         IN [st EXCEPT !.timers = @ \cup {timer},
                       !.map = IF immediate THEN @ ELSE MapSet(@, IdOf(webhook), st.next),
                       !.log = [@ EXCEPT !.armed = MapSet(@, st.next,
                                                          [timer |-> timer, at |-> clock])],
                       !.next = @ + 1,
                       !.passed = Append(@, webhook)]

\* for (let webhook of webhooks) this.config.renewalScheduler.addToScheduler(webhook)
RECURSIVE init_loop(_, _, _)
init_loop(st, list, clock) ==
    IF list = <<>> \/ st.threw THEN st
    ELSE init_loop(init_addToScheduler(st, Head(list), clock), Tail(list), clock)

\* init() up to the await of getAllWebhooks.
init_call(s) ==
    /\ CanStart(s)
    /\ ~MicroPending
    /\ renewalScheduler
    /\ Cardinality(DOMAIN webhooks) <= HandlesLeft
    /\ procs' = [procs EXCEPT ![s] =
          [New("init") EXCEPT !.pc = "init_lookup", !.ret = "pending",
                              !.in = [webhooks |-> getAllWebhooks(webhooks),
                                      passed |-> <<>>]]]
    /\ opsStarted' = opsStarted + 1
    /\ UNCHANGED <<webhooks, webhookURLToTimeout, timers, nextHandle,
                   renewalScheduler, persistenceManager, schedulerLog, now, ticks, deletedIds>>

\* init() after the await: the loop over the records.
init(s) ==
    /\ procs[s].kind = "init"
    /\ procs[s].pc = "init_lookup"
    /\ LET scheduler == [timers |-> timers, map |-> webhookURLToTimeout,
                         log |-> schedulerLog, next |-> nextHandle,
                         passed |-> <<>>, threw |-> FALSE]
           st == init_loop(scheduler, procs[s].in.webhooks, now)
       IN /\ timers' = st.timers
          /\ webhookURLToTimeout' = st.map
          /\ schedulerLog' = st.log
          /\ nextHandle' = st.next
          /\ procs' = [procs EXCEPT ![s] =
                [@ EXCEPT !.pc = "done", !.in.passed = st.passed,
                          !.ret = IF st.threw THEN "rejected" ELSE "resolved",
                          !.result = IF st.threw THEN "TypeError" ELSE ""]]
    /\ UNCHANGED <<webhooks, renewalScheduler, persistenceManager, now, ticks, opsStarted,
                   deletedIds>>

(***************************************************************************)
(* Start-up: records stored before the manager was constructed, not yet    *)
(* verified or verified by the hub's GET, and init() handing them to the   *)
(* scheduler.                                                              *)
(***************************************************************************)
NextInit ==
    \/ \E t \in {"UserFollows", "StreamChanged"} : App_persistWebhook(t, "1", NULL, <<10>>)
    \/ \E s \in Slots :
          \/ \E r \in GetRequests({"UserFollows"}, {"subscribe"}, {NULL, "abc"}) :
                verification_request(s, r)
          \/ verification(s)
          \/ init_call(s)
          \/ init(s)

SpecInit == Init /\ [][NextInit]_vars

(***************************************************************************)
(* Properties of the records handed to the scheduler (SpecInit).           *)
(***************************************************************************)
\* The records p has passed to addToScheduler: those of init()'s loop, and
\* the record a verification has saved and registered.
PassedBy(p) ==
    IF p.kind = "init" /\ p.pc = "done" THEN {p.in.passed[i] : i \in DOMAIN p.in.passed}
    ELSE IF p.kind = "get" /\ p.pc = "done" /\ renewalScheduler
            /\ \E i \in DOMAIN p.evts : p.evts[i].name = "subscribed"
         THEN {p.webhook}
         ELSE {}

\* C34: every record passed to addToScheduler, by the verification callback
\* or by init(), has subscribed = true and its subscriptionStart and
\* subscriptionEnd defined.
C34_ScheduledAreSubscribed ==
    \A s \in Slots : \A webhook \in PassedBy(procs[s]) :
       /\ Has(webhook, "subscribed") /\ webhook.subscribed
       /\ DatesDefined(webhook)

(***************************************************************************)
(* Properties of the number of pending renewals (SpecScheduler).           *)
(***************************************************************************)
\* C35: the scheduler holds at most one pending renewal per webhook id, also
\* after a second addToScheduler for the id, and a removeFromScheduler(id)
\* that found renewals pending leaves none pending for the id.
C35_OnePendingPerId ==
    /\ [](\A id \in IdsOf({"UserFollows"}) : Cardinality(PendingFor(id)) <= 1)
    /\ [][\A id \in IdsOf({"UserFollows"}) :
             (schedulerLog'.removed # schedulerLog.removed
              /\ \E t \in PendingFor(id) : [handle |-> t.handle, at |-> now] \in schedulerLog'.removed)
             => {t \in timers' : IdOf(t.webhook) = id} = {}]_vars

(***************************************************************************)
(* Denial: the hub grants a subscription, the renewal is armed, and the    *)
(* hub's next GET denies the subscription; the clock and the renewals the  *)
(* timers start.  The application does not subscribe again.                *)
(***************************************************************************)
NextDenial ==
    \/ App_persistWebhook("UserFollows", "1", NULL, <<10>>)
    \/ Tick
    \/ \E s \in Slots :
          \/ \E r \in GetRequests({"UserFollows"}, {"subscribe", "denied"}, {NULL}) :
                verification_request(s, r)
          \/ verification(s)
          \/ \E t \in timers : resubHandler(s, t)
          \/ resubscribePersistenceObject(s)
          \/ \E token \in Tokens : changeSub(s, token)
          \/ \E outcome \in {<<>>, <<202>>} : doHubRequest_first(s, outcome)

SpecDenial == Init /\ [][NextDenial]_vars

(***************************************************************************)
(* Properties of a denied subscription (SpecDenial).                       *)
(***************************************************************************)
\* C36: once the denial branch of the GET handler has deleted a record, no
\* renewal is invoked for its id and no renewal sends a subscribe request for
\* it, also when the record was subscribed and had its renewal armed.
C36_DeniedNeverRenewed ==
    [][\A s \in Slots :
          (/\ procs'[s].kind = "renew"
           /\ procs'[s].id \in deletedIds
           /\ procs'[s] # procs[s])
          => /\ procs'[s].op = procs[s].op
             /\ Len(procs'[s].posts) = Len(procs[s].posts)]_vars

(***************************************************************************)
(* Properties of the hub's GET with hub.mode=unsubscribe (SpecUnsubscribe).*)
(***************************************************************************)
\* The record under id is stored with subscribed = true.
StoredSubscribed(map, id) ==
    id \in DOMAIN map /\ Has(map[id], "subscribed") /\ map[id].subscribed

\* C37: no step of the handler of a verification GET with
\* hub.mode=unsubscribe makes a stored record subscribed, emits 'subscribed'
\* or arms a renewal in the scheduler.
C37_UnsubscribeGetNeverSubscribes ==
    [][\A s \in Slots :
          (/\ procs'[s].kind = "get"
           /\ procs'[s].in.mode = "unsubscribe"
           /\ procs'[s] # procs[s])
          => /\ \A id \in DOMAIN webhooks' :
                   StoredSubscribed(webhooks', id) => StoredSubscribed(webhooks, id)
             /\ \A i \in DOMAIN procs'[s].evts : procs'[s].evts[i].name # "subscribed"
             /\ timers' \subseteq timers]_vars

(***************************************************************************)
(* Properties of subscribing again after a failed hub request              *)
(* (SpecSubscribeSupplied).                                                *)
(***************************************************************************)
\* The subscribe call q started after the subscribe call p for the same
\* identity had ended with its hub request failed, and q has ended.
SubscribedAgain(p, q) ==
    /\ p.kind = "sub" /\ q.kind = "sub"
    /\ p.id = q.id
    /\ HubRequestFailed(p) /\ p.ret = "rejected"
    /\ p.op \in q.seenDone
    /\ q.pc = "done"

\* C38: a subscribe call made after a subscribe call for the same identity
\* whose hub request failed returns the id of the stored record and sends no
\* hub request, and the record stays stored with subscribed = false (no
\* resubscribe and no unsubscribe is called).
C38_SubscribeAgainSendsNothing ==
    \A a \in Slots, b \in Slots :
        SubscribedAgain(procs[a], procs[b])
        => /\ procs[b].ret = "resolved"
           /\ procs[b].result = procs[a].id
           /\ procs[b].posts = <<>>
           /\ procs[a].id \in DOMAIN webhooks
           /\ webhooks[procs[a].id].subscribed = FALSE

\* A subscribe call was rejected after the hub answered 429, and a later one
\* for the same identity has resolved to the id without a POST.
C38_Witness ==
    \E a \in Slots, b \in Slots :
        /\ SubscribedAgain(procs[a], procs[b])
        /\ procs[a].resps = <<429>>
        /\ procs[b].ret = "resolved"
        /\ procs[b].result = procs[a].id
        /\ procs[b].posts = <<>>

(***************************************************************************)
(* Properties of the promise of unsubscribe(id) (SpecDestroy).             *)
(***************************************************************************)
\* The promise of the unsubscribe call in p, for an id that is stored, has
\* resolved.
UnsubscribeResolved(p) ==
    p.kind = "unsub" /\ p.ret = "resolved" /\ Has(p.webhook, "id")

\* C39: when the promise of unsubscribe(id) has resolved for a stored id, the
\* hub's answer to the unsubscribe request has arrived and the record is
\* deleted; so an unsubscribe whose promise has resolved is not in flight
\* when destroy() is called.
C39_UnsubscribeResolvedIsComplete ==
    \A s \in Slots :
       UnsubscribeResolved(procs[s])
       => /\ procs[s].hub # "none"
          /\ procs[s].id \notin DOMAIN webhooks
          /\ schedulerLog.managerDestroyed => procs[s].op \notin schedulerLog.inFlight

====
